---- MODULE Spec2Model ----
(***************************************************************************)
(* Model of the resource harvesting pipeline of the web cloner:            *)
(* ClonerPro (app/cloner.py), ResourceValidator (app/validator.py),        *)
(* FallbackManager (app/fallback.py), ResourceOptimizer (app/optimizer.py),*)
(* QualityScorer (app/quality.py) and clone_site_task (app/tasks.py).      *)
(*                                                                         *)
(* Text (URLs, file names, payload bytes) is a sequence of one-character   *)
(* strings, so that the string functions of the code are computed and not  *)
(* assumed.                                                                *)
(***************************************************************************)
EXTENDS Integers, Sequences, FiniteSets, TLC

\* ------------------------------------------------------------------ bounds
\* Largest number of markup references a document holds.
MaxRefs == 2

\* ------------------------------------------------------------ text helpers
UpperChars == <<"A","B","C","D","E","F","G","H","I","J","K","L","M",
                "N","O","P","Q","R","S","T","U","V","W","X","Y","Z">>

LowerChars == <<"a","b","c","d","e","f","g","h","i","j","k","l","m",
                "n","o","p","q","r","s","t","u","v","w","x","y","z">>

DigitChars == {"0","1","2","3","4","5","6","7","8","9"}

\* str.lower() on one character.
LowerChar(c) ==
    IF \E i \in 1..26 : UpperChars[i] = c
    THEN LowerChars[CHOOSE i \in 1..26 : UpperChars[i] = c]
    ELSE c

\* str.lower()
Lower(s) == [i \in 1..Len(s) |-> LowerChar(s[i])]

\* s[a:b] of Python for 0 <= a, with the end clipped to the length.
Slice(s, a, b) ==
    IF a >= b \/ a >= Len(s) THEN <<>>
    ELSE SubSeq(s, a + 1, IF b > Len(s) THEN Len(s) ELSE b)

\* s.startswith(p)
StartsWith(s, p) == Len(p) <= Len(s) /\ SubSeq(s, 1, Len(p)) = p

\* s.endswith(p)
EndsWith(s, p) ==
    Len(p) <= Len(s) /\ SubSeq(s, Len(s) - Len(p) + 1, Len(s)) = p

\* p in s
Contains(s, p) ==
    \E i \in 0..(Len(s) - Len(p)) : SubSeq(s, i + 1, i + Len(p)) = p

\* s.find(p, from): the least 0-based index >= from where p occurs, or -1.
Find(s, p, from) ==
    IF \E i \in from..(Len(s) - Len(p)) : SubSeq(s, i + 1, i + Len(p)) = p
    THEN CHOOSE i \in from..(Len(s) - Len(p)) :
            /\ SubSeq(s, i + 1, i + Len(p)) = p
            /\ \A j \in from..(i - 1) : SubSeq(s, j + 1, j + Len(p)) # p
    ELSE -1

\* s.rfind(c) for one character: the greatest 0-based index, or -1.
RFindChar(s, c) ==
    IF \E i \in 1..Len(s) : s[i] = c
    THEN (CHOOSE i \in 1..Len(s) :
            s[i] = c /\ \A j \in (i + 1)..Len(s) : s[j] # c) - 1
    ELSE -1

\* Characters matched by \s.
IsSpace(c) == c \in {" ", "\n", "\t", "\r"}

\* Characters matched by \w (ASCII part).
IsWord(c) ==
    \/ \E i \in 1..26 : UpperChars[i] = c \/ LowerChars[i] = c
    \/ c \in DigitChars
    \/ c = "_"

\* str.lstrip() / str.strip()
RECURSIVE LStrip(_)
LStrip(s) ==
    IF s # <<>> /\ IsSpace(Head(s)) THEN LStrip(Tail(s)) ELSE s

RECURSIVE RStrip(_)
RStrip(s) ==
    IF s # <<>> /\ IsSpace(s[Len(s)])
    THEN RStrip(SubSeq(s, 1, Len(s) - 1)) ELSE s

Strip(s) == RStrip(LStrip(s))

\* ------------------------------------------------------------------- URLs
\* The absolute URLs a document of the model may reference.
UrlPng  == <<"h","t","t","p",":","/","/","h","/","a",".","p","n","g">>

\* A name without an extension, in a directory of its own, which the
\* catalogue of the fallback knows.
UrlJq   == <<"h","t","t","p",":","/","/","h","/","s","/","j","Q","u","e","r","y">>

AllUrls == <<UrlPng, UrlJq>>

Urls == {AllUrls[i] : i \in 1..Len(AllUrls)}

\* urlparse(url).path: what follows scheme://netloc, up to '?' or '#'.
UrlPath(url) ==
    LET p0   == Find(url, <<":","/","/">>, 0)
        rest == IF p0 = -1 THEN url ELSE Slice(url, p0 + 3, Len(url))
        cut(s, c) == IF Find(s, <<c>>, 0) = -1 THEN s
                     ELSE Slice(s, 0, Find(s, <<c>>, 0))
        noFrag == cut(cut(rest, "#"), "?")
        slash  == Find(noFrag, <<"/">>, 0)
    IN IF p0 = -1 THEN noFrag
       ELSE IF slash = -1 THEN <<>>
       ELSE Slice(noFrag, slash, Len(noFrag))

\* The percent escapes unquote() decodes in the model's alphabet.
PercentDecoded(h1, h2) ==
    LET x == <<LowerChar(h1), LowerChar(h2)>>
    IN CASE x = <<"2","f">> -> <<"/">>
         [] x = <<"2","e">> -> <<".">>
         [] x = <<"2","0">> -> <<" ">>
         [] x = <<"5","c">> -> <<"\\">>
         [] OTHER -> <<"%", h1, h2>>

\* urllib.parse.unquote
RECURSIVE unquote(_)
unquote(s) ==
    IF s = <<>> THEN <<>>
    ELSE IF Head(s) = "%" /\ Len(s) >= 3
         THEN PercentDecoded(s[2], s[3]) \o unquote(Slice(s, 3, Len(s)))
         ELSE <<Head(s)>> \o unquote(Tail(s))

\* os.path.basename
basename(path) == Slice(path, RFindChar(path, "/") + 1, Len(path))

\* hashlib.md5(url.encode()).hexdigest()[:8]: eight hex digits that are a
\* function of the URL, distinct for the distinct URLs of the model.
HexDigits == <<"0","1","2","3","4","5","6","7","8","9","a","b","c","d","e","f">>

Hash8(url) ==
    LET n == IF \E i \in 1..Len(AllUrls) : AllUrls[i] = url
             THEN CHOOSE i \in 1..Len(AllUrls) : AllUrls[i] = url
             ELSE 0
    IN <<"0","0","0","0","0","0","0">> \o <<HexDigits[(n % 16) + 1]>>

\* len(filename) > 100 falls back to the hash name (cloner.py:276).
FilenameMax == 100

\* The extensions sanitize_filename accepts as they are (cloner.py:282).
KnownExts == { <<".","j","p","g">>, <<".","j","p","e","g">>, <<".","p","n","g">>,
               <<".","g","i","f">>, <<".","s","v","g">>, <<".","w","e","b","p">>,
               <<".","i","c","o">>, <<".","c","s","s">>, <<".","j","s">>,
               <<".","w","o","f","f">>, <<".","w","o","f","f","2">>,
               <<".","t","t","f">> }

ExtJpg   == <<".","j","p","g">>
ExtCss   == <<".","c","s","s">>
ExtJs    == <<".","j","s">>
ExtWoff2 == <<".","w","o","f","f","2">>
ExtIco   == <<".","i","c","o">>
NoExt    == <<>>

\* The substitution with a character class that lets the space through.
SafeChars_spaces(s) ==
    [i \in 1..Len(s) |-> IF IsWord(s[i]) \/ s[i] \in {"-", "_", ".", " "}
                         THEN s[i] ELSE "_"]

\* re.sub(r'[^\w\-_\.]', '_', filename)
SafeChars(s) ==
    [i \in 1..Len(s) |-> IF IsWord(s[i]) \/ s[i] \in {"-", "_", "."}
                         THEN s[i] ELSE "_"]

\* ClonerPro.sanitize_filename
sanitize_filename(url, default_ext) ==
    LET filename == basename(unquote(UrlPath(url)))
        named == IF filename = <<>> \/ Len(filename) > FilenameMax
                 THEN <<"r","e","s","o","u","r","c","e","_">> \o Hash8(url) \o default_ext
                 ELSE filename
        safe  == SafeChars(named)
    IN IF default_ext # <<>> /\ ~ \E ext \in KnownExts : EndsWith(Lower(safe), ext)
       THEN safe \o default_ext
       ELSE safe

\* ------------------------------------------------------------- fallback
\* FallbackManager.cdn_map, in its insertion order (keys and CDN URLs).
CdnKeys == << <<"j","q","u","e","r","y">>,
              <<"b","o","o","t","s","t","r","a","p">>,
              <<"f","o","n","t","a","w","e","s","o","m","e">>,
              <<"a","n","i","m","a","t","e",".","c","s","s">>,
              <<"t","a","i","l","w","i","n","d">>,
              <<"v","u","e">>,
              <<"r","e","a","c","t">>,
              <<"r","e","a","c","t","-","d","o","m">> >>

\* The CDN URL of the i-th catalogue entry, by the library it serves.
CdnUrl(i) == <<"c","d","n",":">> \o CdnKeys[i]

NoUrl == <<>>

\* get_cdn_url with a catalogue that never matches.
get_cdn_url_none(original_url) == NoUrl

\* FallbackManager.get_cdn_url: the first key, in dict order, that occurs in
\* the lower-cased URL; None (NoUrl) when no key occurs.
get_cdn_url(original_url) ==
    LET hits == {i \in 1..Len(CdnKeys) : Contains(Lower(original_url), CdnKeys[i])}
    IN IF hits = {} THEN NoUrl
       ELSE CdnUrl(CHOOSE i \in hits : \A j \in hits : i <= j)

\* --------------------------------------------------------------- payloads
\* A payload is a sequence of bytes; a byte is a one-character string, or the
\* name of a byte that is no ASCII character ("x89", "xff", "xd8", "x00", "x01").
PayPng  == <<"x89","P","N","G">>

PayHtml == <<"<","!","D","O","C","T","Y","P","E">>

PayCss  == <<"a","{","b",":"," ","u","r","l","(","a",".","p","n","g",")","}">>

\* What a coroutine that yielded no bytes holds (Python's None).
None == << "<None>" >>

\* not content
Falsy(content) == content = None \/ content = <<>>

\* The responses page.request.get can produce for one request: an exception
\* (timeout, connection error), or a status with a body.
Responses ==
    { [raised |-> TRUE,  status |-> 0,   body |-> <<>>],
      [raised |-> FALSE, status |-> 404, body |-> PayHtml],
      [raised |-> FALSE, status |-> 204, body |-> <<>>],
      [raised |-> FALSE, status |-> 200, body |-> <<>>],
      [raised |-> FALSE, status |-> 200, body |-> PayPng],
      [raised |-> FALSE, status |-> 200, body |-> PayHtml],
      [raised |-> FALSE, status |-> 200, body |-> PayCss] }

\* ClonerPro._fetch_content: the body of a 200 response, None otherwise.
fetch_content(resp) ==
    IF ~resp.raised /\ resp.status = 200 THEN resp.body ELSE None

\* -------------------------------------------------------------- validator
\* data[:100] is searched for an SVG tag (validator.py:34).
SvgWindow == 100

\* len(text) > 20 asks for a CSS signal (validator.py:62).
CssSmall == 20

\* The magic bytes ResourceValidator.is_valid_image accepts.
valid_headers == { <<"xff","xd8","xff">>, <<"x89","P","N","G">>,
                   <<"G","I","F","8","9","a">>, <<"G","I","F","8","7","a">>,
                   <<"<","s","v","g">>, <<"R","I","F","F">>,
                   <<"x00","x00","x01","x00">> }

\* bytes.decode('utf-8', errors='ignore'): the bytes that are no UTF-8 text
\* are dropped.
Decode(data) == SelectSeq(data, LAMBDA b : b \notin {"x89", "xff", "xd8"})

\* ResourceValidator.is_valid_image
is_valid_image(data) ==
    /\ data # <<>>
    /\ ~ StartsWith(LStrip(data), <<"<","!","D","O","C","T","Y","P","E">>)
    /\ ~ StartsWith(LStrip(data), <<"<","h","t","m","l">>)
    /\ \/ Contains(Lower(Slice(data, 0, SvgWindow)), <<"<","s","v","g">>)
       \/ \E h \in valid_headers : StartsWith(data, h)

\* The text checks is_valid_css and is_valid_js share: not an HTML page.
NotHtmlText(text) ==
    /\ ~ StartsWith(Lower(text), <<"<","!","d","o","c","t","y","p","e">>)
    /\ ~ Contains(Lower(text), <<"<","h","t","m","l">>)

\* ResourceValidator.is_valid_css
is_valid_css(data) ==
    LET text == Strip(Decode(data))
        has_css_syntax ==
            \/ Contains(text, <<"{">>) /\ Contains(text, <<"}">>)
            \/ Contains(text, <<"@","i","m","p","o","r","t">>)
            \/ Contains(text, <<"@","m","e","d","i","a">>)
            \/ Contains(text, <<"@","f","o","n","t","-","f","a","c","e">>)
            \/ Contains(text, <<"b","o","d","y">>)
            \/ Contains(text, <<"c","o","l","o","r",":">>)
    IN /\ data # <<>>
       /\ NotHtmlText(text)
       /\ (Len(text) > CssSmall => has_css_syntax)

\* ResourceValidator.is_valid_js
is_valid_js(data) ==
    /\ data # <<>>
    /\ NotHtmlText(Strip(Decode(data)))

\* The validation step of download_resource: the check of the resource type,
\* none for a type that is neither image, css nor js.
Validate(content, resource_type) ==
    CASE resource_type = "image" -> is_valid_image(content)
      [] resource_type = "css"   -> is_valid_css(content)
      [] resource_type = "js"    -> is_valid_js(content)
      [] OTHER -> TRUE

\* ------------------------------------------------------------ stylesheets
\* The characters the group [^"')\s]+ of the url() pattern takes.
UrlChar(c) == c \notin {"\"", "'", ")"} /\ ~IsSpace(c)

\* The longest run of UrlChar characters of s from 0-based index i.
RECURSIVE UrlRun(_, _)
UrlRun(s, i) ==
    IF i < Len(s) /\ UrlChar(s[i + 1]) THEN 1 + UrlRun(s, i + 1) ELSE 0

\* One attempt of the pattern url\(["']?([^"')\s]+)["']?\) at 0-based index
\* i: the matched group and the index after the match, or no match.
UrlMatchAt(s, i) ==
    LET isQuote(j) == j < Len(s) /\ s[j + 1] \in {"\"", "'"}
        g0  == IF isQuote(i + 4) THEN i + 5 ELSE i + 4
        n   == UrlRun(s, g0)
        g1  == g0 + n
        c0  == IF isQuote(g1) THEN g1 + 1 ELSE g1
    IN IF /\ Slice(s, i, i + 4) = <<"u","r","l","(">>
          /\ n > 0
          /\ c0 < Len(s) /\ s[c0 + 1] = ")"
       THEN [found |-> TRUE, group |-> Slice(s, g0, g1), next |-> c0 + 1]
       ELSE [found |-> FALSE, group |-> <<>>, next |-> i + 1]

\* re.findall of the url() pattern from 0-based index i.
RECURSIVE FindUrlsFrom(_, _)
FindUrlsFrom(s, i) ==
    IF i >= Len(s) THEN <<>>
    ELSE LET m == UrlMatchAt(s, i)
         IN (IF m.found THEN <<m.group>> ELSE <<>>) \o FindUrlsFrom(s, m.next)

\* re.findall(r'url\(["\']?([^"\')\s]+)["\']?\)', css_content)
FindUrls(css_content) == FindUrlsFrom(css_content, 0)

\* str.replace(old, new): every occurrence, left to right, not overlapping.
RECURSIVE Replace(_, _, _)
Replace(s, old, new) ==
    LET i == Find(s, old, 0)
    IN IF old = <<>> \/ i = -1 THEN s
       ELSE Slice(s, 0, i) \o new \o Replace(Slice(s, i + Len(old), Len(s)), old, new)

\* A reference that opens with a scheme, which urljoin returns as it is.
HasScheme(ref) ==
    LET colon == Find(ref, <<":">>, 0)
        slash == Find(ref, <<"/">>, 0)
    IN colon > 0 /\ (slash = -1 \/ colon < slash)

\* The directory above dir (which ends with '/'); the root of the host is its
\* own parent.
ParentDir(dir) ==
    LET root == Find(dir, <<"/">>, Find(dir, <<":","/","/">>, 0) + 3) + 1
    IN IF Len(dir) <= root THEN dir
       ELSE Slice(dir, 0, RFindChar(Slice(dir, 0, Len(dir) - 1), "/") + 1)

\* A relative reference is appended to a directory, each leading '../'
\* going one directory up.
RECURSIVE JoinRel(_, _)
JoinRel(dir, ref) ==
    IF StartsWith(ref, <<".",".","/">>)
    THEN JoinRel(ParentDir(dir), Slice(ref, 3, Len(ref)))
    ELSE dir \o ref

\* urljoin(base, ref) for the references of the model: a reference with a
\* scheme is absolute, an empty one is the base, and a relative one replaces
\* what follows the last '/' of the base.
urljoin(base, ref) ==
    IF HasScheme(ref) THEN ref
    ELSE IF ref = <<>> THEN base
    ELSE JoinRel(Slice(base, 0, RFindChar(base, "/") + 1), ref)

\* -------------------------------------------------------------- optimizer
\* re.sub(r'/\*.*?\*/', '', content, flags=re.DOTALL)
RECURSIVE StripComments(_)
StripComments(s) ==
    LET a == Find(s, <<"/","*">>, 0)
        b == IF a = -1 THEN -1 ELSE Find(s, <<"*","/">>, a + 2)
    IN IF a = -1 \/ b = -1 THEN s
       ELSE Slice(s, 0, a) \o StripComments(Slice(s, b + 2, Len(s)))

\* re.sub(r'\s+', ' ', compact)
RECURSIVE CollapseSpace(_)
CollapseSpace(s) ==
    IF s = <<>> THEN <<>>
    ELSE IF IsSpace(Head(s))
         THEN <<" ">> \o CollapseSpace(LStrip(s))
         ELSE <<Head(s)>> \o CollapseSpace(Tail(s))

\* re.sub(r'\s*([:;{}])\s*', r'\1', compact)
RECURSIVE TrimPunct(_)
TrimPunct(s) ==
    LET t == LStrip(s)
    IN IF s = <<>> THEN <<>>
       ELSE IF t # <<>> /\ Head(t) \in {":", ";", "{", "}"}
            THEN <<Head(t)>> \o TrimPunct(LStrip(Tail(t)))
            ELSE <<Head(s)>> \o TrimPunct(Tail(s))

\* The regex pass of minify_css (optimizer.py:94-98).
RegexCompact(content) == TrimPunct(CollapseSpace(StripComments(content)))

\* csscompressor.compress: the library removes comments and the white space
\* that carries no meaning.
compress(content) == RegexCompact(content)

\* How the csscompressor import and call can end.
CssLib == {"ok", "missing", "raises"}

\* ResourceOptimizer.minify_css: the content of the file afterwards. The file
\* is read as text; it is written when the compressor made it shorter, or
\* by the regex pass when the compressor raised.
minify_css(data, lib) ==
    LET content == Decode(data)
    IN CASE lib = "ok" ->
               IF compress(content) # <<>> /\ Len(compress(content)) < Len(content)
               THEN compress(content) ELSE data
         [] lib = "missing" -> data
         [] OTHER -> RegexCompact(content)

\* ResourceOptimizer.minify_js: the content of the file afterwards.
minify_js(data) ==
    LET content == Decode(data)
    IN IF Len(StripComments(content)) < Len(content)
       THEN StripComments(content) ELSE data

\* How Pillow can end on a file: it cannot decode it or knows no format for
\* its name (the file is left as it is), it re-encodes it, or the encoder
\* fails after the file was opened for writing.
ImageLib == {"undecodable", "reencoded", "save_fails"}

\* The bytes Pillow writes for a file name: the format follows the extension.
Encoded(path) ==
    CASE EndsWith(Lower(path), <<".","j","p","g">>)
           \/ EndsWith(Lower(path), <<".","j","p","e","g">>) -> <<"xff","xd8","xff">>
      [] EndsWith(Lower(path), <<".","p","n","g">>) -> <<"x89","P","N","G">>
      [] EndsWith(Lower(path), <<".","w","e","b","p">>) -> <<"R","I","F","F">>
      [] EndsWith(Lower(path), <<".","g","i","f">>) -> <<"G","I","F","8","9","a">>
      [] OTHER -> <<"x00","x00","x01","x00">>

\* ResourceOptimizer.optimize_image: the content of the file afterwards.
optimize_image(path, content, lib) ==
    CASE lib = "undecodable" -> content
      [] lib = "reencoded"   -> Encoded(path)
      [] OTHER -> <<>>

\* ------------------------------------------------------------------ state
VARIABLES
    pc,          \* where clone_site_task / capture_site stands
    taskState,   \* the state the task reported last through update_state
    progress,    \* the progress value reported last
    taskResult,  \* what clone_site_task returned ("" while it has not)
    exc,         \* the exception that is propagating ("" when none)
    milestones,  \* what capture_site has completed, in order
    pass,        \* the pass of process_page that is running (0 outside)
    rpc,         \* where the running pass stands
    doc,         \* the elements of the document met so far
    res,         \* the frame of the running download_resource call
    cssjob,      \* the frame of the running process_css_urls call
    downloaded,  \* ClonerPro.downloaded
    files,       \* the files of the job directory: path -> content
    nfetch,      \* primary fetches issued so far: URL -> count
    nwrite,      \* payloads download_resource has written so far: URL -> count
    owner,       \* the URLs whose payload download_resource wrote to a path
    cssrefs,     \* the url() references rewritten in a stylesheet on disk
    quality,     \* analysis_data['quality'], the report of the scorer
    zip,         \* whether the archive of the job exists
    probe        \* a call of one function on its own: name, argument, result

vars == <<pc, taskState, progress, taskResult, exc, milestones, pass, rpc, doc,
          res, cssjob, downloaded, files, nfetch, nwrite, owner, cssrefs, quality,
          zip, probe>>

harvest == <<pass, rpc, doc, res, cssjob, downloaded, files, nfetch, nwrite,
            owner, cssrefs>>

task == <<taskState, progress, taskResult, quality, zip>>

\* ------------------------------------------------------------ the document
\* ClonerPro.url, the page every src and href is resolved against.
PageUrl == <<"h","t","t","p",":","/","/","h","/">>

\* A reference urljoin cannot parse: it raises ValueError (Invalid IPv6 URL).
BadUrl == <<"/","/","[">>

\* The src / href values an element of the model may carry.
Srcs == Urls \cup {BadUrl}

\* An inline image.
DataUri == <<"d","a","t","a",":","x">>

\* The src / href values the elements of a pass may carry.
SrcsOf(kind) == IF kind = "images" THEN Srcs \cup {DataUri} ELSE Srcs

\* urljoin raises ValueError for a reference whose netloc opens a bracket it
\* does not close.
UrljoinRaises(ref) == Contains(ref, <<"[">>) /\ ~Contains(ref, <<"]">>)

\* The passes of process_page, in the order it runs them.
Passes == <<"images", "css", "js", "fonts", "icons">>

\* ClonerPro.dirs, relative to the job directory, by pass.
DirOf(kind) ==
    CASE kind = "images" -> <<"a","s","s","e","t","s","/","i","m","a","g","e","s","/">>
      [] kind = "css"    -> <<"c","s","s","/">>
      [] kind = "js"     -> <<"j","s","/">>
      [] kind = "fonts"  -> <<"a","s","s","e","t","s","/","f","o","n","t","s","/">>
      [] OTHER           -> <<"a","s","s","e","t","s","/","i","c","o","n","s","/">>

\* The default extension each pass hands to sanitize_filename.
DefaultExt(kind) ==
    CASE kind = "images" -> ExtJpg
      [] kind = "css"    -> ExtCss
      [] kind = "js"     -> ExtJs
      [] kind = "fonts"  -> ExtWoff2
      [] OTHER           -> ExtIco

\* The resource type each pass hands to download_resource.
TypeOf(kind) ==
    CASE kind = "images" -> "image"
      [] kind = "css"    -> "css"
      [] kind = "js"     -> "js"
      [] kind = "fonts"  -> "font"
      [] OTHER           -> "image"

\* The responsive-loading attributes an img of the model may carry.
LazyAttrs == { [srcset |-> TRUE, datasrc |-> FALSE] }

Attrs(src, lazy) == [src |-> src, srcset |-> lazy.srcset, datasrc |-> lazy.datasrc]

\* An element as the parser delivered it (orig) and as it stands (now).
Element(kind, src, lazy) ==
    [kind |-> kind, orig |-> Attrs(src, lazy), now |-> Attrs(src, lazy),
     status |-> "pending"]

\* The words process_js skips a script for (cloner.py:363).
JsTrackers == { <<"g","o","o","g","l","e">>, <<"f","a","c","e","b","o","o","k">>, <<"a","n","a","l","y","t","i","c","s">>, <<"g","t","a","g">>, <<"h","o","t","j","a","r">> }

\* The skips of the passes when process_images lets an inline image through.
Skipped_inline_resolved(kind, src) ==
    CASE kind = "images" -> src = <<>>
      [] kind = "css"    -> src = <<>>
      [] kind = "js"     -> src = <<>> \/ \E t \in JsTrackers : Contains(Lower(src), t)
      [] OTHER           -> FALSE

\* The references a pass skips before resolving them.
Skipped(kind, src) ==
    CASE kind = "images" -> src = <<>> \/ StartsWith(src, <<"d","a","t","a",":">>)
      [] kind = "css"    -> src = <<>>
      [] kind = "js"     -> src = <<>> \/ \E t \in JsTrackers : Contains(Lower(src), t)
      [] OTHER           -> FALSE

\* ------------------------------------------------------- download_resource
NoRes == [url |-> <<>>, path |-> <<>>, rtype |-> "", caller |-> "",
          match |-> <<>>, rel |-> <<>>,
          first |-> None, content |-> None, fetched |-> <<>>,
          optfail |-> FALSE, result |-> FALSE, why |-> ""]

NoCss == [path |-> <<>>, base |-> <<>>, urls |-> <<>>, content |-> <<>>,
          modified |-> FALSE, done |-> {}]

Bump(f, k) ==
    IF k \in DOMAIN f THEN [f EXCEPT ![k] = @ + 1] ELSE f @@ (k :> 1)

Put(f, k, v) == [x \in DOMAIN f \cup {k} |-> IF x = k THEN v ELSE f[x]]

\* A directory without the files outside D.
Restrict(f, D) == [x \in D |-> f[x]]

\* An exception leaves capture_site.
Raise(name) == pc' = "raised" /\ exc' = name

\* download_resource returns: the frame keeps the value for the caller.
Returns(frame, value, why) ==
    /\ res' = [frame EXCEPT !.result = value, !.why = why]
    /\ rpc' = "ret"

\* The dedup check that never hits.
InDedup_never(url) == FALSE

\* if url in self.downloaded (cloner.py:206)
InDedup(url) == url \in downloaded

\* The entry of download_resource up to its first await: the dedup check,
\* then the primary fetch is issued.
Enter(url, path, rtype, caller, match, rel) ==
    LET frame == [NoRes EXCEPT !.url = url, !.path = path, !.rtype = rtype,
                               !.caller = caller, !.match = match, !.rel = rel]
    IN IF InDedup(url)
       THEN /\ Returns(frame, TRUE, "dedup")
            /\ UNCHANGED nfetch
       ELSE /\ res' = [frame EXCEPT !.fetched = <<url>>]
            /\ rpc' = "fetch1"
            /\ nfetch' = Bump(nfetch, url)

\* download_resource without its validation step: every payload is taken.
Accept_unchecked(frame, content) ==
    /\ downloaded' = downloaded \cup {frame.url}
    /\ res' = [frame EXCEPT !.content = content]
    /\ rpc' = "write"

\* Steps 3 and 4 of download_resource up to the await of the write: the
\* payload is validated and the URL enters the dedup set.
Accept(frame, content) ==
    IF Validate(content, frame.rtype)
    THEN /\ downloaded' = downloaded \cup {frame.url}
         /\ res' = [frame EXCEPT !.content = content]
         /\ rpc' = "write"
    ELSE /\ Returns([frame EXCEPT !.content = content], FALSE, "invalid")
         /\ UNCHANGED downloaded

\* --------------------------------------------------- the passes of the page
\* The loop head of a pass meets the next element of its kind: the element
\* is skipped, or urljoin raises, or download_resource is entered.
NextRef ==
    /\ pc = "page" /\ rpc = "loop"
    /\ Len(doc) < MaxRefs
    /\ \E src \in SrcsOf(Passes[pass]) :
       \E lazy \in (IF Passes[pass] = "images" THEN LazyAttrs
                    ELSE {[srcset |-> FALSE, datasrc |-> FALSE]}) :
         LET kind == Passes[pass]
             e    == Element(kind, src, lazy)
             ref  == Strip(src)
             url  == urljoin(PageUrl, ref)
             filename == sanitize_filename(url, DefaultExt(kind))
         IN IF Skipped(kind, ref)
            THEN /\ doc' = Append(doc, [e EXCEPT !.status = "skipped"])
                 /\ UNCHANGED <<pc, exc, rpc, res, nfetch>>
            ELSE IF UrljoinRaises(ref)
            THEN /\ doc' = Append(doc, [e EXCEPT !.status = "raised"])
                 /\ Raise("urljoin")
                 /\ UNCHANGED <<rpc, res, nfetch>>
            ELSE /\ doc' = Append(doc, e)
                 /\ Enter(url, DirOf(kind) \o filename, TypeOf(kind), "page",
                          <<>>, DirOf(kind) \o filename)
                 /\ UNCHANGED <<pc, exc>>
    /\ UNCHANGED <<task, milestones, pass, cssjob, downloaded, files, nwrite, owner, cssrefs>>
    /\ UNCHANGED probe

\* The response of the primary fetch arrives (cloner.py:211-224).
FetchPrimary ==
    /\ pc = "page" /\ rpc = "fetch1"
    /\ \E resp \in Responses :
         LET content == fetch_content(resp)
             cdn_url == get_cdn_url(res.url)
         IN IF ~Falsy(content)
            THEN Accept([res EXCEPT !.first = content], content) /\ UNCHANGED nfetch
            ELSE IF cdn_url # NoUrl
            THEN /\ res' = [res EXCEPT !.fetched = Append(@, cdn_url),
                                         !.first = content]
                 /\ rpc' = "fetch2"
                 /\ UNCHANGED <<downloaded, nfetch>>
            ELSE /\ Returns([res EXCEPT !.first = content], FALSE, "fetch")
                 /\ UNCHANGED <<downloaded, nfetch>>
    /\ UNCHANGED <<pc, task, exc, milestones, pass, doc, cssjob, files, nwrite, owner, cssrefs>>
    /\ UNCHANGED probe

\* The response of the fetch of the CDN substitute arrives (cloner.py:218-224).
FetchFallback ==
    /\ pc = "page" /\ rpc = "fetch2"
    /\ \E resp \in Responses :
         LET content == fetch_content(resp)
         IN IF ~Falsy(content)
            THEN Accept(res, content)
            ELSE Returns(res, FALSE, "fetch") /\ UNCHANGED downloaded
    /\ UNCHANGED <<pc, task, exc, milestones, pass, doc, cssjob, files, nfetch, nwrite, owner,
                   cssrefs>>
    /\ UNCHANGED probe

\* How the write of a file can end: written, or open() raises and nothing
\* is changed.
WriteOutcomes == {"ok", "open_raises"}

\* download_resource without its except clause: an error of the write leaves
\* process_page as an exception.
Persist_propagates ==
    /\ pc = "page" /\ rpc = "write"
    /\ \E o \in WriteOutcomes :
         CASE o = "ok" ->
                /\ files' = Put(files, res.path, res.content)
                /\ nwrite' = Bump(nwrite, res.url)
                /\ owner' = Put(owner, res.path,
                                (IF res.path \in DOMAIN owner THEN owner[res.path] ELSE {})
                                    \cup {res.url})
                /\ rpc' = "optimize"
                /\ UNCHANGED <<res, pc, exc>>
           [] OTHER ->
                /\ Raise("persist")
                /\ UNCHANGED <<res, rpc, files, nwrite, owner>>
    /\ UNCHANGED <<task, milestones, pass, doc, cssjob, downloaded, nfetch, cssrefs>>
    /\ UNCHANGED probe

\* The payload is written (cloner.py:243-244); an error is caught by the
\* except of download_resource, which returns False.
Persist ==
    /\ pc = "page" /\ rpc = "write"
    /\ \E o \in WriteOutcomes :
         CASE o = "ok" ->
                /\ files' = Put(files, res.path, res.content)
                /\ nwrite' = Bump(nwrite, res.url)
                /\ owner' = Put(owner, res.path,
                                (IF res.path \in DOMAIN owner THEN owner[res.path] ELSE {})
                                    \cup {res.url})
                /\ rpc' = "optimize"
                /\ UNCHANGED res
           [] OTHER ->
                /\ Returns(res, FALSE, "persist")
                /\ UNCHANGED <<files, nwrite, owner>>
    /\ UNCHANGED <<pc, task, exc, milestones, pass, doc, cssjob, downloaded, nfetch,
                   cssrefs>>
    /\ UNCHANGED probe

\* The outcomes of the libraries for which an optimizer returns False after
\* an exception.
OptFailed(rtype, lib) ==
    CASE rtype = "image" -> lib \in {"undecodable", "save_fails"}
      [] rtype = "css"   -> lib = "missing"
      [] OTHER -> FALSE

\* The optimizer of the resource type runs on the file (cloner.py:247-254);
\* it catches its own errors, and download_resource returns True.
Optimize ==
    /\ pc = "page" /\ rpc = "optimize"
    /\ CASE res.rtype = "image" ->
              \E lib \in ImageLib :
                /\ files' = Put(files, res.path,
                                optimize_image(res.path, files[res.path], lib))
                /\ Returns([res EXCEPT !.optfail = OptFailed("image", lib)],
                           TRUE, "saved")
         [] res.rtype = "css" ->
              \E lib \in CssLib :
                /\ files' = Put(files, res.path, minify_css(files[res.path], lib))
                /\ Returns([res EXCEPT !.optfail = OptFailed("css", lib)],
                           TRUE, "saved")
         [] res.rtype = "js" ->
              /\ files' = Put(files, res.path, minify_js(files[res.path]))
              /\ Returns(res, TRUE, "saved")
         [] OTHER -> UNCHANGED files /\ Returns(res, TRUE, "saved")
    /\ UNCHANGED <<pc, task, exc, milestones, pass, doc, cssjob, downloaded, nfetch,
                   nwrite, owner, cssrefs>>
    /\ UNCHANGED probe

\* The element the running pass is working on.
Cur == doc[Len(doc)]

SetCur(e) == [doc EXCEPT ![Len(doc)] = e]

\* The rewrite of a resolved element: src / href becomes the local path, and
\* process_images removes srcset and data-src (cloner.py:299-302).
Rewritten(e, path) ==
    [e EXCEPT !.now = [src |-> path,
                       srcset  |-> IF e.kind = "images" THEN FALSE ELSE @.srcset,
                       datasrc |-> IF e.kind = "images" THEN FALSE ELSE @.datasrc],
              !.status = "ok"]

\* A pass that rewrites its element whatever download_resource returned.
AfterReturn_always(e, success, path) ==
    [Rewritten(e, path) EXCEPT !.status = IF success THEN "ok" ELSE "failed"]

\* What a pass does to its element with the value download_resource returned.
AfterReturn(e, success, path) ==
    IF success THEN Rewritten(e, path) ELSE [e EXCEPT !.status = "failed"]

\* process_css that hands the URL of the page to process_css_urls.
ReturnToPage_pagebase ==
    /\ pc = "page" /\ rpc = "ret" /\ res.caller = "page"
    /\ IF res.result /\ Cur.kind = "css"
       THEN /\ cssjob' = [NoCss EXCEPT !.path = res.path, !.base = PageUrl]
            /\ rpc' = "cssopen"
            /\ UNCHANGED doc
       ELSE /\ doc' = SetCur(AfterReturn(Cur, res.result, res.rel))
            /\ rpc' = "loop"
            /\ UNCHANGED cssjob
    /\ res' = NoRes
    /\ UNCHANGED <<pc, task, exc, milestones, pass, downloaded, files, nfetch, nwrite, owner,
                   cssrefs>>
    /\ UNCHANGED probe

\* download_resource has returned to a pass of the page: the element is
\* rewritten on success; process_css first runs process_css_urls.
ReturnToPage ==
    /\ pc = "page" /\ rpc = "ret" /\ res.caller = "page"
    /\ IF res.result /\ Cur.kind = "css"
       THEN /\ cssjob' = [NoCss EXCEPT !.path = res.path, !.base = res.url]
            /\ rpc' = "cssopen"
            /\ UNCHANGED doc
       ELSE /\ doc' = SetCur(AfterReturn(Cur, res.result, res.rel))
            /\ rpc' = "loop"
            /\ UNCHANGED cssjob
    /\ res' = NoRes
    /\ UNCHANGED <<pc, task, exc, milestones, pass, downloaded, files, nfetch, nwrite, owner,
                   cssrefs>>
    /\ UNCHANGED probe

\* process_css_urls is left: process_css rewrites the href of its link.
CssLeave ==
    /\ doc' = SetCur(Rewritten(Cur, cssjob.path))
    /\ cssjob' = NoCss
    /\ rpc' = "loop"

\* process_css_urls opens and reads the stylesheet (cloner.py:327-331); a
\* file that cannot be opened raises, which the except of the method drops.
CssOpen ==
    /\ pc = "page" /\ rpc = "cssopen"
    /\ IF cssjob.path \in DOMAIN files
       THEN /\ cssjob' = [cssjob EXCEPT !.content = Decode(files[cssjob.path]),
                                        !.urls = FindUrls(Decode(files[cssjob.path]))]
            /\ rpc' = "cssloop"
            /\ UNCHANGED doc
       ELSE CssLeave
    /\ UNCHANGED <<pc, task, exc, milestones, pass, res, downloaded, files, nfetch,
                   nwrite, owner, cssrefs>>
    /\ UNCHANGED probe

FontMarks == { <<".","w","o","f","f">>, <<".","t","t","f">>, <<".","o","t","f">> }

ImageMarks == { <<".","j","p","g">>, <<".","p","n","g">>, <<".","s","v","g">> }

\* The kind process_css_urls gives a url() reference (cloner.py:340-349).
CssKind(url_match) ==
    IF \E x \in FontMarks : Contains(Lower(url_match), x) THEN "fonts"
    ELSE IF \E x \in ImageMarks : Contains(Lower(url_match), x) THEN "images"
    ELSE "none"

\* The loop of process_css_urls takes the next url() reference
\* (cloner.py:333-351).
CssNext ==
    /\ pc = "page" /\ rpc = "cssloop" /\ cssjob.urls # <<>>
    /\ LET url_match == Head(cssjob.urls)
           absolute_url == urljoin(cssjob.base, url_match)
           filename == sanitize_filename(absolute_url, NoExt)
           kind == CssKind(url_match)
           rest == [cssjob EXCEPT !.urls = Tail(@)]
       IN IF StartsWith(url_match, <<"d","a","t","a",":">>) \/ StartsWith(url_match, <<"#">>)
          THEN cssjob' = rest /\ UNCHANGED <<doc, rpc, res, nfetch>>
          ELSE IF UrljoinRaises(url_match)
          THEN CssLeave /\ UNCHANGED <<res, nfetch>>
          ELSE IF kind = "none"
          THEN cssjob' = rest /\ UNCHANGED <<doc, rpc, res, nfetch>>
          ELSE /\ cssjob' = rest
               /\ Enter(absolute_url, DirOf(kind) \o filename, TypeOf(kind), "css",
                        url_match, <<".",".","/">> \o DirOf(kind) \o filename)
               /\ UNCHANGED doc
    /\ UNCHANGED <<pc, task, exc, milestones, pass, downloaded, files, nwrite, owner, cssrefs>>
    /\ UNCHANGED probe

\* process_css_urls that replaces the reference whatever download_resource
\* returned.
ReturnToCss_unconditional ==
    /\ pc = "page" /\ rpc = "ret" /\ res.caller = "css"
    /\ cssjob' = [cssjob EXCEPT !.content = Replace(@, res.match, res.rel),
                                !.modified = TRUE,
                                !.done = IF res.result
                                         THEN @ \cup {[sheet |-> cssjob.path,
                                                       url |-> res.url,
                                                       rel |-> res.rel]}
                                         ELSE @]
    /\ rpc' = "cssloop"
    /\ res' = NoRes
    /\ UNCHANGED <<pc, task, exc, milestones, pass, doc, downloaded, files, nfetch,
                   nwrite, owner, cssrefs>>
    /\ UNCHANGED probe

\* download_resource has returned to process_css_urls: on success every
\* occurrence of the reference is replaced in the text (cloner.py:351-353).
ReturnToCss ==
    /\ pc = "page" /\ rpc = "ret" /\ res.caller = "css"
    /\ cssjob' = IF res.result
                 THEN [cssjob EXCEPT !.content = Replace(@, res.match, res.rel),
                                     !.modified = TRUE,
                                     !.done = @ \cup {[sheet |-> cssjob.path,
                                                       url |-> res.url,
                                                       rel |-> res.rel]}]
                 ELSE cssjob
    /\ rpc' = "cssloop"
    /\ res' = NoRes
    /\ UNCHANGED <<pc, task, exc, milestones, pass, doc, downloaded, files, nfetch,
                   nwrite, owner, cssrefs>>
    /\ UNCHANGED probe

\* The loop of process_css_urls is over: the text is written back when a
\* reference was replaced (cloner.py:355-359), an error of the write being
\* dropped, and process_css rewrites the href.
CssEnd ==
    /\ pc = "page" /\ rpc = "cssloop" /\ cssjob.urls = <<>>
    /\ IF cssjob.modified
       THEN \E o \in WriteOutcomes :
              CASE o = "ok" -> /\ files' = Put(files, cssjob.path, cssjob.content)
                               /\ cssrefs' = cssrefs \cup cssjob.done
                [] OTHER -> UNCHANGED <<files, cssrefs>>
       ELSE UNCHANGED <<files, cssrefs>>
    /\ CssLeave
    /\ UNCHANGED <<pc, task, exc, milestones, pass, res, downloaded, nfetch, nwrite, owner>>
    /\ UNCHANGED probe

\* A pass has met its last element: the next pass starts, or process_page
\* returns the document to capture_site.
NextPass ==
    /\ pc = "page" /\ rpc = "loop"
    /\ IF pass < Len(Passes)
       THEN pass' = pass + 1 /\ UNCHANGED pc
       ELSE pass' = 0 /\ pc' = "save_index"
    /\ UNCHANGED <<task, exc, milestones, rpc, doc, res, cssjob, downloaded, files,
                   nfetch, nwrite, owner, cssrefs>>
    /\ UNCHANGED probe


\* ------------------------------------------------------------ index.html
\* str(soup) for one element.
ElementText(e) ==
    LET lazy == (IF e.now.srcset THEN <<" ","s","r","c","s","e","t","=","\"","x","\"">> ELSE <<>>)
                \o (IF e.now.datasrc THEN <<" ","d","a","t","a","-","s","r","c","=","\"","x","\"">> ELSE <<>>)
    IN CASE e.kind = "images" -> <<"<","i","m","g"," ","s","r","c","=","\"">> \o e.now.src \o <<"\"">> \o lazy \o <<"/",">">>
         [] e.kind = "css"    -> <<"<","l","i","n","k"," ","h","r","e","f","=","\"">> \o e.now.src \o <<"\""," ","r","e","l","=","\"","s","t","y","l","e","s","h","e","e","t","\"","/",">">>
         [] e.kind = "js"     -> <<"<","s","c","r","i","p","t"," ","s","r","c","=","\"">> \o e.now.src \o <<"\"",">","<","/","s","c","r","i","p","t",">">>
         [] e.kind = "fonts"  -> <<"<","l","i","n","k"," ","a","s","=","\"","f","o","n","t","\""," ","h","r","e","f","=","\"">> \o e.now.src \o <<"\""," ","r","e","l","=","\"","p","r","e","l","o","a","d","\"","/",">">>
         [] OTHER             -> <<"<","l","i","n","k"," ","h","r","e","f","=","\"">> \o e.now.src \o <<"\""," ","r","e","l","=","\"","i","c","o","n","\"","/",">">>

\* str(soup): the document as markup text.
RECURSIVE Serialize(_)
Serialize(d) ==
    IF d = <<>> THEN <<>> ELSE ElementText(Head(d)) \o Serialize(Tail(d))

IndexPath == <<"i","n","d","e","x",".","h","t","m","l">>

\* ---------------------------------------------------------- QualityScorer
\* str.count(p): the occurrences of p that do not overlap.
RECURSIVE Count(_, _)
Count(s, p) ==
    LET i == Find(s, p, 0)
    IN IF i = -1 THEN 0 ELSE 1 + Count(Slice(s, i + Len(p), Len(s)), p)

\* os.listdir of a directory of the job: the paths of its files.
Listing(fs, dir) == {p \in DOMAIN fs : StartsWith(p, dir)}

\* check_images without the floor of its score at 0.
check_images_unfloored(fs) ==
    LET imgs      == Listing(fs, DirOf("images"))
        total     == Cardinality(imgs)
        oversized == Cardinality({p \in imgs : Len(fs[p]) > 1500000})
        broken    == Cardinality({p \in imgs : Len(fs[p]) < 100})
        penalty   == broken * 20 + oversized * 5
    IN IF total = 0 THEN 100
       ELSE 100 - (penalty * 10) \div total

\* check_images that also takes a file of exactly 100 bytes for broken.
check_images_inclusive(fs) ==
    LET imgs      == Listing(fs, DirOf("images"))
        total     == Cardinality(imgs)
        oversized == Cardinality({p \in imgs : Len(fs[p]) > 1500000})
        broken    == Cardinality({p \in imgs : Len(fs[p]) <= 100})
        penalty   == broken * 20 + oversized * 5
    IN IF total = 0 THEN 100
       ELSE IF penalty * 10 >= 100 * total THEN 0
       ELSE (100 * total - penalty * 10) \div total

\* QualityScorer.check_images: the score of the image directory.
check_images(fs) ==
    LET imgs      == Listing(fs, DirOf("images"))
        total     == Cardinality(imgs)
        oversized == Cardinality({p \in imgs : Len(fs[p]) > 1500000})
        broken    == Cardinality({p \in imgs : Len(fs[p]) < 100})
        penalty   == broken * 20 + oversized * 5
    IN IF total = 0 THEN 100
       ELSE IF penalty * 10 >= 100 * total THEN 0
       ELSE (100 * total - penalty * 10) \div total

\* check_css that takes a directory without stylesheets for a defect.
check_css_strict(fs) ==
    LET sheets == {p \in Listing(fs, DirOf("css")) : EndsWith(p, ExtCss)}
        total  == Cardinality(sheets)
        broken == Cardinality({p \in sheets :
                      Contains(Lower(Decode(fs[p])), <<"<","h","t","m","l">>)})
    IN IF total = 0 THEN 0
       ELSE (100 * total - broken * 100) \div total

\* QualityScorer.check_css: the score of the stylesheet directory.
check_css(fs) ==
    LET sheets == {p \in Listing(fs, DirOf("css")) : EndsWith(p, ExtCss)}
        total  == Cardinality(sheets)
        broken == Cardinality({p \in sheets :
                      Contains(Lower(Decode(fs[p])), <<"<","h","t","m","l">>)})
    IN IF total = 0 THEN 100
       ELSE (100 * total - broken * 100) \div total

HtmlTracers == { <<"g","o","o","g","l","e","-","a","n","a","l","y","t","i","c","s">>, <<"f","b","q","(">>, <<"g","t","a","g","(">> }

\* QualityScorer.check_html: the score of index.html.
check_html(fs) ==
    IF IndexPath \notin DOMAIN fs THEN 0
    ELSE LET content == Decode(fs[IndexPath])
             broken_refs == Count(content, <<"s","r","c","=","\"","\"">>) + Count(content, <<"h","r","e","f","=","\"","\"">>)
             found_tracers == Cardinality({t \in HtmlTracers : Contains(content, t)})
             score == 100 - (IF broken_refs * 2 < 20 THEN broken_refs * 2 ELSE 20)
                          - found_tracers * 5
         IN IF score < 0 THEN 0 ELSE score

\* ------------------------------------------------------- float arithmetic
\* The doubles calculate_overall_score meets are 0 or lie in [2^-2, 2^7), so
\* each is a multiple n of 2^-54 with at most 53 significant bits. Such a
\* value is held as the three base-2^21 digits <<hi, mid, lo>> of n.
Limb == 2^21

\* The literal 0.4, the double 0x1.999999999999ap-2 = 7205759403792794 / 2^54.
Weight04 == <<1638, 838860, 1677722>>

\* The literal 0.3, the double 0x1.3333333333333p-2 = 5404319552844595 / 2^54.
Weight03 == <<1228, 1677721, 1258291>>

\* The digits of hi * 2^42 + mid * 2^21 + lo, carries propagated.
Carry(hi, mid, lo) ==
    LET m == mid + lo \div Limb
    IN <<hi + m \div Limb, m % Limb, lo % Limb>>

\* The result of an operation is the double nearest to the exact value, ties
\* to the even mantissa: the exact value keeps its 53 leading bits.
RoundDouble(n) ==
    LET s    == CHOOSE k \in 0..9 : n[1] < 2^(11 + k) /\ (k = 0 \/ n[1] >= 2^(10 + k))
        q    == 2^s
        r    == n[3] % q
        down == <<n[1], n[2], n[3] - r>>
        up   == Carry(n[1], n[2], n[3] - r + q)
    IN IF r = 0 THEN n
       ELSE IF 2 * r < q THEN down
       ELSE IF 2 * r > q THEN up
       ELSE IF (n[3] \div q) % 2 = 0 THEN down ELSE up

\* score * w for an int score and a double w.
FloatMul(k, w) == RoundDouble(Carry(k * w[1], k * w[2], k * w[3]))

\* a + b for two doubles.
FloatAdd(a, b) == RoundDouble(Carry(a[1] + b[1], a[2] + b[2], a[3] + b[3]))

\* int(total) for a double that is not negative.
Truncate(n) == n[1] \div 2^12

\* QualityScorer.calculate_overall_score: sum() adds the three products in
\* the order of the weights (html, css, images), and int() truncates.
calculate_overall_score(html, css, images) ==
    Truncate(FloatAdd(FloatAdd(FloatMul(html, Weight04), FloatMul(css, Weight03)),
                      FloatMul(images, Weight03)))

NoQuality == [html |-> -1, css |-> -1, images |-> -1, overall |-> -1]

\* QualityScorer.analyze_quality
analyze_quality(fs) ==
    [html |-> check_html(fs), css |-> check_css(fs), images |-> check_images(fs),
     overall |-> calculate_overall_score(check_html(fs), check_css(fs),
                                         check_images(fs))]

\* The decimal digits of a score.
RECURSIVE Dec(_)
Dec(n) ==
    IF n < 10 THEN <<HexDigits[n + 1]>>
    ELSE Dec(n \div 10) \o <<HexDigits[(n % 10) + 1]>>

\* QualityScorer.generate_report and the JSON of the analysis: the text that
\* carries the scores.
ReportText(q) ==
    <<"O","v","e","r","a","l","l"," ","Q","u","a","l","i","t","y"," ","S","c","o","r","e",":"," ">> \o Dec(q.overall) \o <<"/","1","0","0"," ","h","t","m","l"," ">> \o Dec(q.html)
        \o <<" ","c","s","s"," ">> \o Dec(q.css) \o <<" ","i","m","a","g","e","s"," ">> \o Dec(q.images)

\* ------------------------------------------- clone_site_task, capture_site
\* clone_site_task starts (tasks.py:16).
TaskInit ==
    /\ pc = "t_start"
    /\ taskState' = "PROGRESS" /\ progress' = 5
    /\ pc' = "t_construct"
    /\ UNCHANGED <<taskResult, quality, zip, exc, milestones, harvest>>
    /\ UNCHANGED probe

\* ClonerPro is constructed (tasks.py:29-30): the directories of the job are
\* made, which raises when they cannot be.
TaskConstruct ==
    /\ pc = "t_construct"
    /\ progress' = 10
    /\ \E ok \in BOOLEAN :
         IF ok THEN pc' = "t_load" /\ UNCHANGED exc ELSE Raise("makedirs")
    /\ UNCHANGED <<taskState, taskResult, quality, zip, milestones, harvest>>
    /\ UNCHANGED probe

\* tasks.py:38
TaskLoad ==
    /\ pc = "t_load"
    /\ progress' = 20
    /\ pc' = "t_navigate"
    /\ UNCHANGED <<taskState, taskResult, quality, zip, exc, milestones, harvest>>
    /\ UNCHANGED probe

\* run_with_progress starts capture_site (tasks.py:33-35).
TaskNavigate ==
    /\ pc = "t_navigate"
    /\ progress' = 15
    /\ pc' = "goto"
    /\ UNCHANGED <<taskState, taskResult, quality, zip, exc, milestones, harvest>>
    /\ UNCHANGED probe

\* Steps 1 to 4 of capture_site: the page is loaded, scrolled, read and
\* analysed; a failure of the browser raises.
Render ==
    /\ pc = "goto"
    /\ \E ok \in BOOLEAN :
         IF ok
         THEN pc' = "page" /\ pass' = 1 /\ UNCHANGED exc
         ELSE Raise("render") /\ UNCHANGED pass
    /\ UNCHANGED <<task, milestones, rpc, doc, res, cssjob, downloaded, files,
                   nfetch, nwrite, owner, cssrefs>>
    /\ UNCHANGED probe

\* capture_site without its step 6: the scorer runs on a directory that has
\* no index.html.
SaveIndex_skipped ==
    /\ pc = "save_index"
    /\ pc' = "quality"
    /\ UNCHANGED <<task, exc, milestones, harvest>>
    /\ UNCHANGED probe

\* Step 6 of capture_site: index.html is written (cloner.py:89-90).
SaveIndex ==
    /\ pc = "save_index"
    /\ \E o \in WriteOutcomes :
         CASE o = "ok" ->
                /\ files' = Put(files, IndexPath, Serialize(doc))
                /\ milestones' = Append(milestones, "index")
                /\ pc' = "quality" /\ UNCHANGED exc
           [] OTHER ->
                /\ Raise("index_write") /\ UNCHANGED <<files, milestones>>
    /\ UNCHANGED <<task, pass, rpc, doc, res, cssjob, downloaded, nfetch, nwrite, owner,
                   cssrefs>>
    /\ UNCHANGED probe

\* A scorer that deletes the images it counts as broken.
RunQuality_repairing ==
    /\ pc = "quality"
    /\ quality' = analyze_quality(files)
    /\ files' = Restrict(files, {p \in DOMAIN files :
                    ~(StartsWith(p, DirOf("images")) /\ Len(files[p]) < 100)})
    /\ milestones' = Append(milestones, "scored")
    /\ pc' = "reports"
    /\ UNCHANGED <<taskState, progress, taskResult, zip, exc>>
    /\ UNCHANGED <<pass, rpc, doc, res, cssjob, downloaded, nfetch, nwrite, owner,
                   cssrefs>>
    /\ UNCHANGED probe

\* Step 7 of capture_site: the scorer inspects the directory (cloner.py:94-96).
RunQuality ==
    /\ pc = "quality"
    /\ quality' = analyze_quality(files)
    /\ milestones' = Append(milestones, "scored")
    /\ pc' = "reports"
    /\ UNCHANGED <<taskState, progress, taskResult, zip, exc, harvest>>
    /\ UNCHANGED probe

\* Step 8 of capture_site: generate_reports writes ANALYSIS.md and
\* analysis.json (cloner.py:401-418); capture_site then returns.
GenerateReports ==
    /\ pc = "reports"
    /\ \E ok \in BOOLEAN :
         IF ok
         THEN /\ files' = Put(Put(files, <<"A","N","A","L","Y","S","I","S",".","m","d">>, ReportText(quality)),
                              <<"a","n","a","l","y","s","i","s",".","j","s","o","n">>, ReportText(quality))
              /\ milestones' = Append(milestones, "reports")
              /\ pc' = "t_reports" /\ UNCHANGED exc
         ELSE Raise("report_write") /\ UNCHANGED <<files, milestones>>
    /\ UNCHANGED <<task, pass, rpc, doc, res, cssjob, downloaded, nfetch, nwrite, owner,
                   cssrefs>>
    /\ UNCHANGED probe

\* tasks.py:42-43
TaskReports ==
    /\ pc = "t_reports"
    /\ progress' = 85
    /\ pc' = "t_zip"
    /\ UNCHANGED <<taskState, taskResult, quality, zip, exc, milestones, harvest>>
    /\ UNCHANGED probe

\* tasks.py:46-48: create_zip_archive makes the archive, or drops its error
\* and returns None.
TaskZip ==
    /\ pc = "t_zip"
    /\ progress' = 90
    /\ \E ok \in BOOLEAN : zip' = ok
    /\ pc' = "t_complete"
    /\ UNCHANGED <<taskState, taskResult, quality, exc, milestones, harvest>>
    /\ UNCHANGED probe

\* tasks.py:53-60: the task returns its result.
TaskComplete ==
    /\ pc = "t_complete"
    /\ progress' = 100
    /\ taskResult' = "Completed" /\ taskState' = "SUCCESS"
    /\ pc' = "done"
    /\ UNCHANGED <<quality, zip, exc, milestones, harvest>>
    /\ UNCHANGED probe

\* A task that drops the exception and returns its result all the same.
TaskExcept_completes ==
    /\ pc = "raised"
    /\ taskState' = "SUCCESS" /\ taskResult' = "Completed"
    /\ pc' = "done"
    /\ UNCHANGED <<progress, quality, zip, exc, milestones, harvest>>
    /\ UNCHANGED probe

\* tasks.py:62-65: the exception reaches the task, which records FAILURE and
\* raises it again.
TaskExcept ==
    /\ pc = "raised"
    /\ taskState' = "FAILURE"
    /\ pc' = "failed"
    /\ UNCHANGED <<progress, taskResult, quality, zip, exc, milestones, harvest>>
    /\ UNCHANGED probe

\* ------------------------------------------------------------ specification
\* No function is being called on its own.
NoProbe == [fn |-> "", arg |-> <<>>, out |-> <<>>]

Init ==
    /\ pc = "t_start"
    /\ taskState = "PENDING" /\ progress = 0 /\ taskResult = ""
    /\ exc = "" /\ milestones = <<>>
    /\ pass = 0 /\ rpc = "loop" /\ doc = <<>>
    /\ res = NoRes /\ cssjob = NoCss
    /\ downloaded = {}
    /\ files = <<>>
    /\ nfetch = <<>> /\ nwrite = <<>> /\ owner = <<>> /\ cssrefs = {}
    /\ quality = NoQuality /\ zip = FALSE
    /\ probe = NoProbe

Next ==
    \/ TaskInit \/ TaskConstruct \/ TaskLoad \/ TaskNavigate \/ Render
    \/ NextRef \/ FetchPrimary \/ FetchFallback \/ Persist \/ Optimize
    \/ ReturnToPage \/ CssOpen \/ CssNext \/ ReturnToCss \/ CssEnd \/ NextPass
    \/ SaveIndex \/ RunQuality \/ GenerateReports
    \/ TaskReports \/ TaskZip \/ TaskComplete \/ TaskExcept

Spec == Init /\ [][Next]_vars


\* ------------------------------------------------------------------ claims
\* The absolute URL a pass resolves for an element.
RefUrl(e) == urljoin(PageUrl, Strip(e.orig.src))

\* The references of the document that were rewritten: the URL, the path of
\* the job directory the new value names, and the resource type.
HtmlRewrites ==
    { [url |-> RefUrl(doc[i]), target |-> doc[i].now.src,
       rtype |-> TypeOf(doc[i].kind)] :
      i \in {j \in DOMAIN doc : doc[j].status = "ok"} }

\* The url() references rewritten in stylesheets on disk; their relative path
\* ../assets/... is taken from the css directory of the job.
CssRewrites ==
    { [url |-> r.url, target |-> Slice(r.rel, 3, Len(r.rel)),
       rtype |-> IF StartsWith(r.rel, <<".",".","/","a","s","s","e","t","s","/","f","o","n","t","s","/">>) THEN "font" ELSE "image"] :
      r \in cssrefs }

Rewrites == HtmlRewrites \cup CssRewrites

\* process_page has returned the document to capture_site.
PageReturned == pc = "save_index"

\* C1 (as claimed): at the end of process_page every rewritten src, href and
\* stylesheet url() names a file that exists in the job directory at that
\* path and holds a payload that passes the validator of its kind.
C1_RewrittenRefsResolve ==
    PageReturned =>
        \A r \in Rewrites :
            /\ r.target \in DOMAIN files
            /\ Validate(files[r.target], r.rtype)

\* C2 (as claimed): at most one primary fetch is issued per absolute URL in
\* one job, whether the first resolution of the URL succeeded or failed.
C2_OnePrimaryFetchPerUrl ==
    \A u \in DOMAIN nfetch : nfetch[u] <= 1

\* C3 (as claimed): all rewritten references to one absolute URL are
\* rewritten to paths that denote the same local file, whatever the kind
\* under which each reference was met.
C3_SameUrlSamePath ==
    \A r1, r2 \in Rewrites : r1.url = r2.url => r1.target = r2.target


\* The catalogue of the fallback knows a library named in the URL.
CatalogueHas(url) == \E i \in 1..Len(CdnKeys) : Contains(Lower(url), CdnKeys[i])

\* C4: the payload of a URL that was resolved by the full sequence is
\* written exactly once; no fetch and no write is under way for a URL whose
\* payload is written, and a resolution that ends on the dedup set has
\* fetched nothing.
C4_PersistedOnce ==
    /\ \A u \in DOMAIN nwrite : nwrite[u] = 1 /\ u \in downloaded
    /\ rpc \in {"fetch1", "fetch2", "write"} => res.url \notin DOMAIN nwrite
    /\ (rpc = "ret" /\ res.why = "dedup") => (res.result /\ res.fetched = <<>>)

\* C4 witness: two references to one URL are rewritten and its payload was
\* written once.
C4_Witness ==
    /\ PageReturned
    /\ \E i, j \in DOMAIN doc :
          /\ i < j
          /\ doc[i].status = "ok" /\ doc[j].status = "ok"
          /\ RefUrl(doc[i]) = RefUrl(doc[j])
          /\ RefUrl(doc[i]) \in DOMAIN nwrite

\* C5: a payload that fails the validator of the requested type is not
\* written, its URL does not enter the dedup set, and download_resource
\* returns False; a payload that is written has passed the validator.
C5_InvalidNeverPersisted ==
    /\ rpc \in {"write", "optimize"} => Validate(res.content, res.rtype)
    /\ (rpc = "ret" /\ ~Falsy(res.content) /\ ~Validate(res.content, res.rtype)) =>
          /\ ~res.result
          /\ res.url \notin downloaded
          /\ res.url \notin DOMAIN nwrite

\* C5 witness: the substitute of the fallback delivered a payload that the
\* validator rejected.
C5_Witness ==
    /\ rpc = "ret" /\ ~res.result
    /\ Len(res.fetched) = 2
    /\ ~Falsy(res.content) /\ ~Validate(res.content, res.rtype)

\* C6: one resolution issues at most two fetches, the primary one and, when
\* it failed and the catalogue knows the URL, exactly one for the substitute;
\* a substitute that is fetched and validates makes the URL resolved, one
\* that fails leaves it unresolved.
C6_SingleFallback ==
    /\ Len(res.fetched) <= 2
    /\ Len(res.fetched) >= 1 => res.fetched[1] = res.url
    /\ Len(res.fetched) = 2 =>
          /\ Falsy(res.first)
          /\ CatalogueHas(res.url)
          /\ \E i \in 1..Len(CdnKeys) : res.fetched[2] = CdnUrl(i)
    /\ (rpc = "ret" /\ res.why = "fetch" /\ CatalogueHas(res.url)) =>
          Len(res.fetched) = 2
    /\ (Len(res.fetched) = 2 /\ rpc \in {"write", "optimize"}) =>
          res.url \in downloaded
    /\ (Len(res.fetched) = 2 /\ rpc = "ret" /\ res.why = "saved") =>
          (res.result /\ res.url \in downloaded)
    /\ (Len(res.fetched) = 2 /\ rpc = "ret" /\ res.why = "fetch") =>
          (~res.result /\ res.url \notin downloaded)

\* C6 witness: the primary fetch failed, the substitute was fetched and the
\* URL is resolved.
C6_Witness ==
    /\ rpc = "ret" /\ res.result
    /\ Len(res.fetched) = 2
    /\ res.url \in downloaded

\* C7: a resolution that fails returns a value and raises nothing, the pass
\* goes on, and process_page hands over a document all of whose elements
\* were handled; only a reference urljoin cannot parse ends a pass early.
C7_ResourceFailureNeverAborts ==
    /\ (rpc = "ret" /\ ~res.result) => (pc = "page" /\ exc = "")
    /\ (exc # "" /\ pass \in 1..Len(Passes)) => (doc # <<>> /\ Cur.status = "raised")
    /\ PageReturned =>
          \A i \in DOMAIN doc : doc[i].status \in {"ok", "failed", "skipped"}

\* C7 witness: process_page has returned a document whose first reference
\* failed and whose second reference was resolved after it.
C7_Witness ==
    /\ PageReturned
    /\ Len(doc) = 2
    /\ doc[1].status = "failed" /\ doc[2].status = "ok"

\* capture_site has returned normally.
CaptureReturned == pc \in {"t_reports", "t_zip", "t_complete", "done"}

IsPrefix(s, t) == Len(s) <= Len(t) /\ SubSeq(t, 1, Len(s)) = s

\* C8: when capture_site returns normally index.html is written and the
\* quality report is computed and recorded; index.html is written before the
\* scorer runs (which therefore finds it) and the reports after it.
C8_CompletedJobHasIndexAndReport ==
    /\ IsPrefix(milestones, <<"index", "scored", "reports">>)
    /\ quality # NoQuality => (IndexPath \in DOMAIN files /\ quality.html > 0)
    /\ <<"a","n","a","l","y","s","i","s",".","j","s","o","n">> \in DOMAIN files =>
          /\ quality # NoQuality
          /\ files[<<"a","n","a","l","y","s","i","s",".","j","s","o","n">>] = ReportText(quality)
          /\ files[<<"A","N","A","L","Y","S","I","S",".","m","d">>] = ReportText(quality)
    /\ CaptureReturned =>
          /\ milestones = <<"index", "scored", "reports">>
          /\ IndexPath \in DOMAIN files
          /\ quality # NoQuality
    /\ pc = "t_reports" =>
          /\ files[IndexPath] = Serialize(doc)
          /\ quality = analyze_quality([p \in DOMAIN files \ { <<"a","n","a","l","y","s","i","s",".","j","s","o","n">>, <<"A","N","A","L","Y","S","I","S",".","m","d">> }
                                          |-> files[p]])
          /\ <<"a","n","a","l","y","s","i","s",".","j","s","o","n">> \in DOMAIN files
          /\ <<"A","N","A","L","Y","S","I","S",".","m","d">> \in DOMAIN files

\* C8 witness: the task is done for a document one of whose references
\* could not be resolved.
C8_Witness ==
    /\ pc = "done"
    /\ \E i \in DOMAIN doc : doc[i].status = "failed"
    /\ IndexPath \in DOMAIN files

\* C9: a structural failure leaves capture_site and clone_site_task as an
\* exception: the task records FAILURE and never returns 'Completed'.
C9_StructuralFailurePropagates ==
    /\ exc # "" => (pc \in {"raised", "failed"} /\ taskResult = "" /\ taskState # "SUCCESS")
    /\ pc = "failed" => (taskState = "FAILURE" /\ exc # "")
    /\ taskResult = "Completed" => exc = ""

\* C9 witness: the write of index.html failed and the task has recorded
\* FAILURE.
C9_Witness ==
    /\ pc = "failed"
    /\ exc = "index_write"
    /\ taskState = "FAILURE"

\* The value a pass writes into src / href of an element it resolved, by pass
\* and by the value the attribute had.
LocalRef ==
    [k \in {Passes[i] : i \in 1..Len(Passes)}, s \in Urls |->
        DirOf(k) \o sanitize_filename(urljoin(PageUrl, Strip(s)), DefaultExt(k))]

\* C10: an element whose resolution did not succeed keeps its src / href,
\* srcset and data-src; an element is rewritten, and an img loses srcset and
\* data-src, only when its resolution succeeded.
C10_FailedElementUntouched ==
    \A i \in DOMAIN doc :
        LET e == doc[i]
        IN /\ e.status # "ok" => e.now = e.orig
           /\ e.status = "ok" =>
                /\ e.orig.src \in Urls
                /\ e.now.src = LocalRef[e.kind, e.orig.src]
                /\ e.kind = "images" => (~e.now.srcset /\ ~e.now.datasrc)
                /\ e.kind # "images" => (e.now.srcset = e.orig.srcset
                                          /\ e.now.datasrc = e.orig.datasrc)

\* C10 witness: an img whose resolution failed still carries its srcset, and
\* an img that was resolved has lost it.
C10_Witness ==
    \E i, j \in DOMAIN doc :
        /\ doc[i].kind = "images" /\ doc[i].status = "failed" /\ doc[i].now.srcset
        /\ doc[j].kind = "images" /\ doc[j].status = "ok"
        /\ doc[j].orig.srcset /\ ~doc[j].now.srcset


\* C12 (as claimed): when the optimizer of a freshly written resource fails,
\* download_resource still returns True, the URL is in the dedup set, and the
\* file holds the validated payload as it was written.
C12_OptimizerFailureKeepsPayload ==
    (pc = "page" /\ rpc = "ret" /\ res.why = "saved" /\ res.optfail)
        => /\ res.result
           /\ res.url \in downloaded
           /\ res.path \in DOMAIN files
           /\ files[res.path] = res.content

\* C13 (as claimed): the payloads of distinct absolute URLs are written to
\* distinct paths, so no path receives the payload of two URLs.
C13_DistinctUrlsDistinctPaths ==
    \A p \in DOMAIN owner : Cardinality(owner[p]) <= 1

\* C14 (as claimed): at the end of process_page every URL of the downloaded
\* set was written: a file exists at the path its payload went to.
C14_InventoryMaterialized ==
    PageReturned =>
        \A u \in downloaded :
            \E p \in DOMAIN owner : u \in owner[p] /\ p \in DOMAIN files

\* The img elements of the document whose src is a data: URI.
InlineImages ==
    {i \in DOMAIN doc : /\ doc[i].kind = "images"
                        /\ StartsWith(Strip(doc[i].orig.src), <<"d","a","t","a",":">>)}

\* C17: an img whose src is a data: URI never enters download_resource (its
\* URL is not fetched, not in the dedup set and not written) and keeps its
\* attributes as the parser delivered them.
C17_InlineImageUntouched ==
    \A i \in InlineImages :
        /\ doc[i].status = "skipped"
        /\ doc[i].now = doc[i].orig
        /\ RefUrl(doc[i]) \notin downloaded
        /\ RefUrl(doc[i]) \notin DOMAIN nfetch
        /\ RefUrl(doc[i]) \notin DOMAIN nwrite
        /\ \A p \in DOMAIN owner : RefUrl(doc[i]) \notin owner[p]
        /\ res.url # RefUrl(doc[i])

C17_Witness ==
    /\ PageReturned
    /\ \E i \in InlineImages : \E j \in DOMAIN doc :
          /\ doc[i].now.src = DataUri
          /\ doc[j].kind = "images" /\ doc[j].status = "ok"

\* The prefix process_css_urls gives the reference it writes into a
\* stylesheet (cloner.py:342, 346).
CssRel(kind, filename) == <<".",".","/">> \o DirOf(kind) \o filename

ReportPaths == {<<"A","N","A","L","Y","S","I","S",".","m","d">>, <<"a","n","a","l","y","s","i","s",".","j","s","o","n">>}

\* C23: analyze_quality leaves every file of the output directory as it is,
\* and generate_report only yields the text that generate_reports writes to
\* ANALYSIS.md and analysis.json: no other file is created, deleted or
\* modified while the scorer runs.
C23_ScorerLeavesFiles ==
    [][/\ pc = "quality" => files' = files
       /\ pc = "reports" =>
             /\ DOMAIN files' \subseteq DOMAIN files \cup ReportPaths
             /\ \A p \in DOMAIN files \ ReportPaths :
                   p \in DOMAIN files' /\ files'[p] = files[p]]_vars

C23_Witness ==
    /\ pc = "reports"
    /\ quality.images = 0
    /\ \E p \in DOMAIN files : StartsWith(p, DirOf("images")) /\ Len(files[p]) < 100
    /\ IndexPath \in DOMAIN files

\* ------------------------------------------------- functions on their own
\* The statuses a response of the unit specification may carry.
ProbeStatuses == {200, 201, 204, 206, 301, 404, 500}

\* The responses _fetch_content is called with on its own.
ProbeResponses ==
    { [raised |-> FALSE, status |-> st, body |-> b] :
          st \in ProbeStatuses, b \in {<<>>, PayPng, PayHtml} }
    \cup { [raised |-> TRUE, status |-> 0, body |-> <<>>] }

\* _fetch_content is called on one response.
CallFetch ==
    /\ pc = "unit" /\ probe = NoProbe
    /\ \E resp \in ProbeResponses :
         probe' = [fn |-> "_fetch_content", arg |-> resp, out |-> fetch_content(resp)]
    /\ UNCHANGED <<pc, task, exc, milestones, harvest>>

\* C11 (as claimed): a fetch attempt yields its payload exactly when the
\* response arrived with a status of the 2xx range, and the failure value for
\* every other response, for a timeout and for a connection error.
C11_SuccessIff2xx ==
    probe.fn = "_fetch_content" =>
        ( probe.out # None
            <=> (~probe.arg.raised /\ probe.arg.status \in 200..299) )


\* How a payload the validators are called with on their own opens ...
ProbeHeads == { <<>>, <<"<","!","D","O","C","T","Y","P","E"," ","h","t","m","l",">">>, <<"<","!","d","o","c","t","y","p","e"," ","h","t","m","l",">">>, <<"<","h","t","m","l",">">>,
                <<"<","H","T","M","L",">">>, <<" ","<","H","t","m","l"," ","l","a","n","g","=","e","n",">">>, PayPng, <<"G","I","F","8","9","a">> }

\* ... and how it goes on.
ProbeTails == { <<>>, <<"<","s","v","g",">","<","/","s","v","g",">">>, <<"b","o","d","y","{","c","o","l","o","r",":","r","e","d","}">>, <<"<","p",">","N","o","t"," ","F","o","u","n","d","<","/","p",">">> }

ProbePayloads == { h \o t : h \in ProbeHeads, t \in ProbeTails }

\* The three validators are called on one payload.
CallValidators ==
    /\ pc = "unit" /\ probe = NoProbe
    /\ \E data \in ProbePayloads :
         probe' = [fn |-> "validators", arg |-> data,
                   out |-> [image |-> is_valid_image(data),
                            css   |-> is_valid_css(data),
                            js    |-> is_valid_js(data)]]
    /\ UNCHANGED <<pc, task, exc, milestones, harvest>>

\* The text of a payload begins with an HTML doctype or an html tag, in any
\* letter case.
BeginsHtml(data) ==
    LET text == Lower(LStrip(Decode(data)))
    IN StartsWith(text, <<"<","!","d","o","c","t","y","p","e">>) \/ StartsWith(text, <<"<","h","t","m","l">>)

\* C16 (as claimed): a payload whose text begins with an HTML doctype or an
\* html tag, in any letter case and whatever follows, is rejected by
\* is_valid_image, is_valid_css and is_valid_js.
C16_HtmlRejectedByAll ==
    (probe.fn = "validators" /\ BeginsHtml(probe.arg)) =>
        (~probe.out.image /\ ~probe.out.css /\ ~probe.out.js)


\* The most empty references, and the most occurrences of one tracking
\* signature, an index.html of the unit specification carries.
MaxEmptyRefs == 11

MaxTracerHits == 2

\* n copies of a text.
RECURSIVE Rep(_, _)
Rep(t, n) == IF n = 0 THEN <<>> ELSE t \o Rep(t, n - 1)

\* The index.html texts the scorer is called with on its own: anchors with an
\* empty href, calls of gtag, and the other two signatures.
ProbeIndexTexts ==
    { Rep(<<"<","a"," ","h","r","e","f","=","\"","\"",">","<","/","a",">">>, e) \o Rep(<<"g","t","a","g","(","'","x","'",")",";">>, g)
        \o (IF o THEN <<"g","o","o","g","l","e","-","a","n","a","l","y","t","i","c","s"," ","f","b","q","(","1",")">> ELSE <<>>) :
          e \in {0, 1, MaxEmptyRefs}, g \in 0..MaxTracerHits, o \in BOOLEAN }

\* The files the directories of the unit specification are made of: an image
\* under 100 bytes, two of 100 bytes, a stylesheet and an error page saved as
\* a stylesheet.
ProbeImages ==
    [f \in { <<"a","s","s","e","t","s","/","i","m","a","g","e","s","/","s",".","p","n","g">>, <<"a","s","s","e","t","s","/","i","m","a","g","e","s","/","b",".","p","n","g">>, <<"a","s","s","e","t","s","/","i","m","a","g","e","s","/","c",".","p","n","g">> }
        |-> IF f = <<"a","s","s","e","t","s","/","i","m","a","g","e","s","/","s",".","p","n","g">> THEN PayPng ELSE [i \in 1..100 |-> "x"]]

ProbeSheets ==
    [f \in { <<"c","s","s","/","a",".","c","s","s">>, <<"c","s","s","/","h",".","c","s","s">> }
        |-> IF f = <<"c","s","s","/","a",".","c","s","s">> THEN <<"a","{","}">> ELSE <<"<","h","t","m","l",">","<","/","h","t","m","l",">">>]

\* The output directories the scorer is called on.
ProbeDirs ==
    { Restrict(ProbeImages, I) @@ Restrict(ProbeSheets, S) @@ idx :
          I \in SUBSET DOMAIN ProbeImages,
          S \in SUBSET DOMAIN ProbeSheets,
          idx \in {<<>>} \cup { IndexPath :> t : t \in ProbeIndexTexts } }

\* analyze_quality is called on one output directory.
CallScorer ==
    /\ pc = "unit" /\ probe = NoProbe
    /\ \E fs \in ProbeDirs :
         probe' = [fn |-> "analyze_quality", arg |-> fs, out |-> analyze_quality(fs)]
    /\ UNCHANGED <<pc, task, exc, milestones, harvest>>

\* C15: for every content of the output directory, the html, css and images
\* scores and the overall score analyze_quality produces lie in 0..100.
C15_ScoresInRange ==
    probe.fn = "analyze_quality" =>
        /\ probe.out.html \in 0..100
        /\ probe.out.css \in 0..100
        /\ probe.out.images \in 0..100
        /\ probe.out.overall \in 0..100

\* C15 witness: a directory whose images are all under 100 bytes and whose
\* stylesheets all hold HTML: the penalties exceed 100 and the scores are 0.
C15_Witness ==
    /\ probe.fn = "analyze_quality"
    /\ Listing(probe.arg, DirOf("images")) = { <<"a","s","s","e","t","s","/","i","m","a","g","e","s","/","s",".","p","n","g">> }
    /\ probe.out.images = 0
    /\ probe.out.css = 0
    /\ IndexPath \notin DOMAIN probe.arg /\ probe.out.html = 0
    /\ probe.out.overall = 0


\* The directory of a job whose document has no image, no stylesheet and no
\* script: index.html is there without such an element, and the image,
\* stylesheet and script directories are empty.
NoResources(fs) ==
    /\ IndexPath \in DOMAIN fs
    /\ Listing(fs, DirOf("images")) = {}
    /\ Listing(fs, DirOf("css")) = {}
    /\ Listing(fs, DirOf("js")) = {}
    /\ \A tag \in {<<"<","i","m","g">>, <<"<","l","i","n","k">>, <<"<","s","c","r","i","p","t">>} :
          ~Contains(Lower(Decode(fs[IndexPath])), tag)

\* The empty references check_html counts in a text.
EmptyRefs(content) == Count(content, <<"s","r","c","=","\"","\"">>) + Count(content, <<"h","r","e","f","=","\"","\"">>)

\* C19 (as claimed): a job whose document has no image, no stylesheet and
\* no script is scored 100 for html, css and images, and 100 overall.
C19_EmptyJobScoresFull ==
    (probe.fn = "analyze_quality" /\ NoResources(probe.arg))
        => probe.out = [html |-> 100, css |-> 100, images |-> 100, overall |-> 100]

\* C19 (amended): a job whose document has no image, no stylesheet and no
\* script, and whose index.html holds no empty src or href and no tracking
\* signature, is scored 100 for html, css and images, and 100 overall.
C19_CleanEmptyJobScoresFull ==
    (/\ probe.fn = "analyze_quality" /\ NoResources(probe.arg)
     /\ EmptyRefs(Decode(probe.arg[IndexPath])) = 0
     /\ \A t \in HtmlTracers : ~Contains(Decode(probe.arg[IndexPath]), t))
        => probe.out = [html |-> 100, css |-> 100, images |-> 100, overall |-> 100]

C19_Witness ==
    /\ probe.fn = "analyze_quality"
    /\ DOMAIN probe.arg = {IndexPath}
    /\ probe.arg[IndexPath] = <<>>
    /\ probe.out.overall = 100

\* The occurrences of the signatures of a set in a text, added up.
RECURSIVE Occurrences(_, _)
Occurrences(content, sigs) ==
    IF sigs = {} THEN 0
    ELSE LET t == CHOOSE x \in sigs : TRUE
         IN Count(content, t) + Occurrences(content, sigs \ {t})

\* C20 (as claimed): the html score is max(0, 100 - min(20, 2E) - 5T) for E
\* occurrences of an empty src or href and T occurrences of a tracking
\* signature in index.html, and 0 when index.html is missing.
C20_HtmlScorePerOccurrence ==
    probe.fn = "analyze_quality" =>
        LET fs == probe.arg
            E  == EmptyRefs(Decode(fs[IndexPath]))
            T  == Occurrences(Decode(fs[IndexPath]), HtmlTracers)
            s  == 100 - (IF 2 * E < 20 THEN 2 * E ELSE 20) - 5 * T
        IN probe.out.html = IF IndexPath \notin DOMAIN fs THEN 0
                            ELSE IF s < 0 THEN 0 ELSE s

\* An image of 1,500,001 bytes.
HeavyImage == <<"a","s","s","e","t","s","/","i","m","a","g","e","s","/","h",".","p","n","g">> :> [i \in 1..1500001 |-> "x"]

\* The image directories check_images is called on.
ProbeImageDirs ==
    { Restrict(ProbeImages, I) @@ h :
        I \in SUBSET DOMAIN ProbeImages, h \in {<<>>, HeavyImage} }

\* check_images runs on one directory; probe keeps the size of each file
\* (os.path.getsize) and the score.
CallImages ==
    /\ pc = "unit" /\ probe = NoProbe
    /\ \E fs \in ProbeImageDirs :
         probe' = [fn |-> "check_images",
                   arg |-> [p \in DOMAIN fs |-> Len(fs[p])],
                   out |-> check_images(fs)]
    /\ UNCHANGED <<pc, task, exc, milestones, harvest>>

\* C21: the images score is 100 for an empty image directory; otherwise it
\* is the integer part of max(0, 100 - (20 * broken + 5 * oversized) / total
\* * 10), a file being broken iff it has less than 100 bytes and oversized
\* iff it has more than 1,500,000; a directory with a file of less than 100
\* bytes scores below 100.
C21_ImagesScoreFormula ==
    probe.fn = "check_images" =>
        LET size  == probe.arg
            total == Cardinality(DOMAIN size)
            small == {p \in DOMAIN size : size[p] < 100}
            heavy == {p \in DOMAIN size : size[p] > 1500000}
            tenP  == 10 * (20 * Cardinality(small) + 5 * Cardinality(heavy))
            s     == probe.out
        IN /\ total = 0 => s = 100
           /\ (total > 0 /\ tenP >= 100 * total) => s = 0
           /\ (total > 0 /\ tenP < 100 * total) =>
                 /\ s * total <= 100 * total - tenP
                 /\ 100 * total - tenP < (s + 1) * total
           /\ small # {} => s < 100

C21_Witness ==
    /\ probe.fn = "check_images"
    /\ Cardinality(DOMAIN probe.arg) = 4
    /\ \E p \in DOMAIN probe.arg : probe.arg[p] = 4
    /\ \E p \in DOMAIN probe.arg : probe.arg[p] > 1500000
    /\ probe.out = 37

\* The largest of the low scores calculate_overall_score is called with.
MaxProbeScore == 9

\* The category scores calculate_overall_score is called with.
ProbeScores == (0..MaxProbeScore) \cup {33, 50, 81, 96, 100}

CallOverall ==
    /\ pc = "unit" /\ probe = NoProbe
    /\ \E h \in ProbeScores : \E c \in ProbeScores : \E i \in ProbeScores :
         probe' = [fn |-> "calculate_overall_score", arg |-> <<h, c, i>>,
                   out |-> calculate_overall_score(h, c, i)]
    /\ UNCHANGED <<pc, task, exc, milestones, harvest>>

\* C22 (as claimed): the overall score is the weighted sum 0.4 html + 0.3 css
\* + 0.3 images truncated to an integer, that is floor((4 html + 3 css +
\* 3 images) / 10), for all category scores.
C22_OverallIsExactWeightedSum ==
    probe.fn = "calculate_overall_score" =>
        probe.out = (4 * probe.arg[1] + 3 * probe.arg[2] + 3 * probe.arg[3]) \div 10

\* ------------------------------------------------------ process_css_urls
\* C32: while process_css_urls works on a stylesheet, the file of the
\* stylesheet stays in place and its content changes only when at least one
\* url() reference was resolved and replaced.
C32_SheetWrittenOnlyIfSubstituted ==
    [][(pc = "page" /\ cssjob # NoCss /\ cssjob.path \in DOMAIN files) =>
          /\ cssjob.path \in DOMAIN files'
          /\ files'[cssjob.path] # files[cssjob.path] => cssjob.done # {}]_vars

\* C32 witness: process_css_urls has ended on a stylesheet whose only url()
\* reference was fetched and did not resolve; the file still holds the
\* reference.
C32_Witness ==
    /\ pc = "page" /\ rpc = "loop" /\ doc # <<>> /\ cssjob = NoCss
    /\ Cur.kind = "css" /\ Cur.status = "ok"
    /\ Cur.now.src \in DOMAIN files
    /\ FindUrls(Decode(files[Cur.now.src])) = << <<"a",".","p","n","g">> >>
    /\ urljoin(RefUrl(Cur), <<"a",".","p","n","g">>) \in DOMAIN nfetch
    /\ urljoin(RefUrl(Cur), <<"a",".","p","n","g">>) \notin downloaded

\* C33 (as claimed): no file a resolution wrote, of whatever kind and from
\* the primary URL or from the substitute, begins with an HTML doctype or an
\* html tag.
C33_NoHtmlUnderAssets ==
    \A p \in DOMAIN owner : p \in DOMAIN files => ~BeginsHtml(files[p])

\* C35 (as claimed): process_css_urls never starts on a stylesheet file it
\* has already rewritten, and no fetch is issued for a URL made from one of
\* the local paths it wrote into a stylesheet.
C35_SheetScannedOnce ==
    /\ (pc = "page" /\ rpc = "cssopen") =>
          \A r \in cssrefs : r.sheet # cssjob.path
    /\ \A r \in cssrefs : \A u \in DOMAIN nfetch :
          ~EndsWith(u, Slice(r.rel, 2, Len(r.rel)))

\* C37 (as claimed): the progress clone_site_task reports never goes down.
C37_ProgressNeverDecreases == [][progress' >= progress]_vars

\* C38 (as claimed): the task returns 'Completed' only when the archive of
\* the job was created.
C38_CompletedOnlyWithArchive == taskResult = "Completed" => zip

\* ------------------------------------------------- the unit specification
\* No job runs: one function of the program is called once on an input of
\* its own.
UnitInit ==
    /\ pc = "unit"
    /\ taskState = "PENDING" /\ progress = 0 /\ taskResult = ""
    /\ exc = "" /\ milestones = <<>>
    /\ pass = 0 /\ rpc = "loop" /\ doc = <<>>
    /\ res = NoRes /\ cssjob = NoCss
    /\ downloaded = {}
    /\ files = <<>>
    /\ nfetch = <<>> /\ nwrite = <<>> /\ owner = <<>> /\ cssrefs = {}
    /\ quality = NoQuality /\ zip = FALSE
    /\ probe = NoProbe

\* Stylesheets as they lie on disk before the optimizer runs.
ProbeStyles ==
    { <<"a", "\n", "b">>, <<"a","{","b",":","c","}">>, <<"/","*","x","*","/","a">>, <<"a"," "," ","b">>, <<"a"," ","{"," ","b"," ",":"," ","c"," ","}">>,
      <<"p", "\n", "q", "{", "u", "r", "l", "(", "a", "}">> }

\* A stylesheet csscompressor.compress raises ValueError for: a url( that is
\* never closed.
Malformed(data) == Contains(data, <<"u","r","l","(">>) /\ ~Contains(data, <<")">>)

\* ResourceOptimizer.minify_css runs on one file, and once more on what it
\* left; the compressor raises for the malformed stylesheets.
CallMinify ==
    /\ pc = "unit" /\ probe = NoProbe
    /\ \E data \in ProbeStyles :
       \E lib \in {l \in CssLib : l = "missing" \/ (l = "raises") = Malformed(data)} :
         probe' = [fn |-> "minify_css",
                   arg |-> [data |-> data, lib |-> lib],
                   out |-> [once  |-> minify_css(data, lib),
                            twice |-> minify_css(minify_css(data, lib), lib)]]
    /\ UNCHANGED <<pc, task, exc, milestones, harvest>>

\* C30 (as claimed): minify_css changes the file only when what it writes is
\* strictly smaller than what was there, on every path, and a second run
\* never makes the file larger.
C30_OverwriteOnlyWhenSmaller ==
    probe.fn = "minify_css" =>
        /\ probe.out.once # probe.arg.data => Len(probe.out.once) < Len(probe.arg.data)
        /\ probe.out.twice # probe.out.once => Len(probe.out.twice) < Len(probe.out.once)
        /\ Len(probe.out.twice) <= Len(probe.out.once)

\* C31 (as claimed): when the import of the compressor fails or the
\* compressor raises, minify_css leaves the file as the regex pass rewrites
\* it.
C31_RegexPassWhenCompressorFails ==
    (probe.fn = "minify_css" /\ probe.arg.lib \in {"missing", "raises"}) =>
        probe.out.once = RegexCompact(Decode(probe.arg.data))

\* URLs of scripts that failed to load: one for each key of the catalogue,
\* in the spelling of a file name, and one of no library.
ProbeLibUrls ==
    { PageUrl \o [i \in 1..Len(CdnKeys[k]) |->
                     IF i = 1 /\ CdnKeys[k][1] = "r" THEN "R" ELSE CdnKeys[k][i]]
              \o ExtJs : k \in 1..Len(CdnKeys) }
    \cup { <<"h","t","t","p",":","/","/","h","/","a","p","p",".","j","s">> }

\* FallbackManager.get_cdn_url is called on one URL.
CallCdn ==
    /\ pc = "unit" /\ probe = NoProbe
    /\ \E url \in ProbeLibUrls :
         probe' = [fn |-> "get_cdn_url", arg |-> url, out |-> get_cdn_url(url)]
    /\ UNCHANGED <<pc, task, exc, milestones, harvest>>

\* C36 (as claimed): get_cdn_url returns a substitute iff a key of the
\* catalogue occurs in the lower-cased URL, and a URL that contains
\* 'react-dom' gets the CDN URL of react-dom.
C36_EveryEntrySelectable ==
    probe.fn = "get_cdn_url" =>
        /\ (probe.out # NoUrl) = CatalogueHas(probe.arg)
        /\ Contains(Lower(probe.arg), <<"r","e","a","c","t","-","d","o","m">>) => probe.out = CdnUrl(8)

\* QualityScorer.__init__: self.score with its empty issue lists; a list is
\* held as the number of times each entry is in it.
NewScorer ==
    [score |-> NoQuality, images_issues |-> <<>>, css_issues |-> <<>>,
     html_issues |-> <<>>]

\* list.append of each entry of S.
AppendAll(issues, S) ==
    [x \in DOMAIN issues \cup S |->
        (IF x \in DOMAIN issues THEN issues[x] ELSE 0) + (IF x \in S THEN 1 ELSE 0)]

\* The entries one run of check_images appends (quality.py:53-60).
ImageIssues(fs) ==
    LET imgs == Listing(fs, DirOf("images"))
    IN {[issue |-> "Heavy image", file |-> p] : p \in {q \in imgs : Len(fs[q]) > 1500000}}
       \cup {[issue |-> "Corrupt/Empty image", file |-> p] :
                p \in {q \in imgs : Len(fs[q]) < 100}}

\* The entries one run of check_css appends (quality.py:96-98).
CssIssues(fs) ==
    {[issue |-> "Invalid CSS (contains HTML)", file |-> p] :
        p \in {q \in Listing(fs, DirOf("css")) :
                  /\ EndsWith(q, ExtCss)
                  /\ Contains(Lower(Decode(fs[q])), <<"<","h","t","m","l">>)}}

\* The list check_html builds for an index.html (quality.py:119-134); the
\* counts its entries quote are left out.
HtmlIssues(fs) ==
    LET content == Decode(fs[IndexPath])
        broken_refs == Count(content, <<"s","r","c","=">> \o <<"\"", "\"">>)
                           + Count(content, <<"h","r","e","f","=">> \o <<"\"", "\"">>)
        found_tracers == Cardinality({t \in HtmlTracers : Contains(content, t)})
    IN (IF broken_refs > 0
        THEN {[issue |-> "empty resource references", file |-> IndexPath]}
        ELSE {})
       \cup (IF found_tracers > 0
             THEN {[issue |-> "tracking scripts detected", file |-> IndexPath]}
             ELSE {})

\* analyze_quality on a scorer: the scores are set; check_images, check_css
\* and the missing-index branch of check_html append to the lists the
\* scorer holds, and check_html otherwise assigns its list anew
\* (quality.py:113, 137).
analyze_quality_on(scorer, fs) ==
    [score |-> analyze_quality(fs),
     images_issues |-> AppendAll(scorer.images_issues, ImageIssues(fs)),
     css_issues |-> AppendAll(scorer.css_issues, CssIssues(fs)),
     html_issues |->
        IF IndexPath \notin DOMAIN fs
        THEN AppendAll(scorer.html_issues,
                       {[issue |-> "Missing index.html", file |-> IndexPath]})
        ELSE AppendAll(<<>>, HtmlIssues(fs))]

\* analyze_quality is called twice on one QualityScorer and one directory.
CallScorerTwice ==
    /\ pc = "unit" /\ probe = NoProbe
    /\ \E fs \in ProbeDirs :
         probe' = [fn |-> "analyze_quality twice", arg |-> DOMAIN fs,
                   out |-> [first  |-> analyze_quality_on(NewScorer, fs),
                            second |-> analyze_quality_on(
                                           analyze_quality_on(NewScorer, fs), fs)]]
    /\ UNCHANGED <<pc, task, exc, milestones, harvest>>

\* C39 (as claimed): the second call of analyze_quality on a scorer and an
\* unchanged directory gives the report the first gave: the same scores and
\* the same issue lists.
C39_AnalyzeTwiceSameReport ==
    probe.fn = "analyze_quality twice" => probe.out.second = probe.out.first

\* Reference URLs whose path ends in an encoded slash and a space, in
\* encoded dots, in an encoded backslash, and in nothing.
ProbeNameUrls ==
    { <<"h","t","t","p",":","/","/","h","/","a","%","2","F","b"," ","c",".","p","n","g">>, <<"h","t","t","p",":","/","/","h","/","x",".","p","n","g","/","%","2","e","%","2","e">>, <<"h","t","t","p",":","/","/","h","/",".",".","%","5","C","c">>,
      <<"h","t","t","p",":","/","/","h","/","d","/">>, UrlPng }

\* sanitize_filename is called on one URL by a pass (with the default
\* extension of its kind) or by process_css_urls (with none).
CallSanitize ==
    /\ pc = "unit" /\ probe = NoProbe
    /\ \E url \in ProbeNameUrls :
       \E kind \in {"images", "fonts", "css", "js", "icons"} :
       \E ext \in {DefaultExt(kind), NoExt} :
         probe' = [fn |-> "sanitize_filename",
                   arg |-> [url |-> url, kind |-> kind, default_ext |-> ext],
                   out |-> sanitize_filename(url, ext)]
    /\ UNCHANGED <<pc, task, exc, milestones, harvest>>

\* C40: the file name sanitize_filename derives from a URL is not empty and
\* has only word characters, '-', '_' and '.', so no path separator: the
\* path of the file is the directory of the kind followed by that one name.
C40_FilenameStaysInDirectory ==
    probe.fn = "sanitize_filename" =>
        /\ probe.out # <<>>
        /\ \A i \in 1..Len(probe.out) :
              /\ IsWord(probe.out[i]) \/ probe.out[i] \in {"-", "_", "."}
              /\ probe.out[i] \notin {"/", "\\"}
        /\ basename(DirOf(probe.arg.kind) \o probe.out) = probe.out

\* C40 witness: a URL whose last segment holds an encoded slash and a space
\* was given the name of what follows the slash, the space replaced.
C40_Witness ==
    /\ probe.fn = "sanitize_filename"
    /\ probe.arg.url = <<"h","t","t","p",":","/","/","h","/","a","%","2","F","b"," ","c",".","p","n","g">>
    /\ probe.out = <<"b","_","c",".","p","n","g">>

UnitNext == CallFetch \/ CallValidators \/ CallScorer \/ CallImages
            \/ CallOverall \/ CallMinify \/ CallCdn \/ CallScorerTwice
            \/ CallSanitize

UnitSpec == UnitInit /\ [][UnitNext]_vars


\* --------------------------------------- two resolutions on one event loop
\* download_resource is a coroutine: between its awaits (the two fetches,
\* the write, the optimizer) the event loop may run another coroutine. Here
\* two calls for one URL are gathered; the frame of the one that is not
\* stepped is kept in probe.out.
Suspended == {"fetch1", "fetch2", "write", "optimize"}

GatherInit ==
    /\ pc = "page"
    /\ taskState = "PROGRESS" /\ progress = 20 /\ taskResult = ""
    /\ exc = "" /\ milestones = <<>>
    /\ pass = 0 /\ rpc = "gather" /\ doc = <<>>
    /\ res = NoRes /\ cssjob = NoCss
    /\ downloaded = {}
    /\ files = <<>>
    /\ nfetch = <<>> /\ nwrite = <<>> /\ owner = <<>> /\ cssrefs = {}
    /\ quality = NoQuality /\ zip = FALSE
    /\ probe = NoProbe

\* The first call runs up to its first await; the second is scheduled.
Gather ==
    /\ pc = "page" /\ rpc = "gather" /\ probe = NoProbe
    /\ \E url \in Urls : \E kind \in {"images", "css"} :
         LET path == DirOf(kind) \o sanitize_filename(url, DefaultExt(kind))
         IN /\ Enter(url, path, TypeOf(kind), "gather", <<>>, path)
            /\ probe' = [fn |-> "gather",
                         arg |-> [url |-> url, path |-> path, rtype |-> TypeOf(kind)],
                         out |-> [res |-> NoRes, rpc |-> "entry"]]
    /\ UNCHANGED <<pc, task, exc, milestones, pass, doc, cssjob, downloaded, files,
                   nwrite, owner, cssrefs>>

\* The second call starts while the first is at an await or has returned:
\* it runs the dedup check and issues its fetch on a miss.
PeerEnter ==
    /\ pc = "page" /\ probe.fn = "gather" /\ probe.out.rpc = "entry"
    /\ rpc \in Suspended \cup {"ret"}
    /\ Enter(probe.arg.url, probe.arg.path, probe.arg.rtype, "gather", <<>>,
             probe.arg.path)
    /\ probe' = [probe EXCEPT !.out = [res |-> res, rpc |-> rpc]]
    /\ UNCHANGED <<pc, task, exc, milestones, pass, doc, cssjob, downloaded, files,
                   nwrite, owner, cssrefs>>

\* The event loop resumes the other call.
Switch ==
    /\ pc = "page" /\ probe.fn = "gather" /\ probe.out.rpc \in Suspended
    /\ rpc \in Suspended \cup {"ret"}
    /\ res' = probe.out.res /\ rpc' = probe.out.rpc
    /\ probe' = [probe EXCEPT !.out = [res |-> res, rpc |-> rpc]]
    /\ UNCHANGED <<pc, task, exc, milestones, pass, doc, cssjob, downloaded, files,
                   nfetch, nwrite, owner, cssrefs>>

GatherNext ==
    \/ Gather \/ PeerEnter \/ Switch
    \/ FetchPrimary \/ FetchFallback \/ Persist \/ Optimize

GatherSpec == GatherInit /\ [][GatherNext]_vars

\* C24 (as claimed): of two resolutions of one URL that are interleaved at
\* their awaits, at most one issues a fetch for the URL.
C24_OneFetchForInterleaved ==
    probe.fn = "gather" =>
        ~(res.fetched # <<>> /\ probe.out.res.fetched # <<>>)


\* ------------------------------------------------------------ cancellation
\* The caller cancels the task that runs capture_site: asyncio raises
\* CancelledError at the await the coroutine is suspended in. probe keeps the
\* fetches issued up to then.
\*
\* The await is page.request.get (cloner.py:263): the bare except of
\* _fetch_content catches the CancelledError and returns None, and
\* download_resource goes on as after a failed fetch (cloner.py:213-224).
CancelFetch ==
    /\ pc = "page" /\ rpc \in {"fetch1", "fetch2"} /\ probe = NoProbe
    /\ probe' = [fn |-> "cancel", arg |-> nfetch, out |-> <<>>]
    /\ LET cdn_url == get_cdn_url(res.url)
       IN IF rpc = "fetch1" /\ cdn_url # NoUrl
          THEN /\ res' = [res EXCEPT !.fetched = Append(@, cdn_url), !.first = None]
               /\ rpc' = "fetch2"
          ELSE Returns(IF rpc = "fetch1" THEN [res EXCEPT !.first = None] ELSE res,
                       FALSE, "fetch")
    /\ UNCHANGED <<pc, task, exc, milestones, pass, doc, cssjob, downloaded, files,
                   nfetch, nwrite, owner, cssrefs>>

\* The await is one of aiofiles (cloner.py:243, 327): CancelledError is no
\* Exception, so no except clause of the program catches it and it leaves
\* capture_site and clone_site_task.
CancelAwait ==
    /\ pc = "page" /\ rpc \in {"write", "cssopen"} /\ probe = NoProbe
    /\ probe' = [fn |-> "cancel", arg |-> nfetch, out |-> <<>>]
    /\ pc' = "cancelled" /\ exc' = "CancelledError"
    /\ UNCHANGED <<task, milestones, harvest>>

CancelNext == Next \/ CancelFetch \/ CancelAwait

CancelSpec == Init /\ [][CancelNext]_vars

\* C25 (as claimed): once the job is cancelled no new fetch is issued: the
\* fetch in flight may end, and no fallback and no further resource is
\* requested afterwards.
C25_NoFetchAfterCancel ==
    probe.fn = "cancel" => (nfetch = probe.arg /\ rpc \notin {"fetch1", "fetch2"})


\* ------------------------------------------- the order of download_resource
\* C26 (as claimed): a URL is in the dedup set only after its payload was
\* written and the optimizer has run: no URL of the set is still waiting for
\* its write or its optimizer, and each has a written file.
C26_MarkedAfterWrittenAndOptimized ==
    \A u \in downloaded :
        /\ u \in DOMAIN nwrite
        /\ ~(pc = "page" /\ rpc \in {"write", "optimize"} /\ res.url = u)

\* C27 (as claimed): while process_css_urls is still rewriting the url()
\* references of a stylesheet, the URL of the stylesheet is not in the dedup
\* set.
C27_SheetMarkedAfterRewrite ==
    (pc = "page" /\ cssjob # NoCss) => cssjob.base \notin downloaded


\* ------------------------------------------- the pre-pass of process_page
\* The patterns of remove_trackers (cloner.py:169-183), each compiled with
\* re.I; the escaped dots are literal dots.
Trackers ==
    { <<"f","a","c","e","b","o","o","k">>, <<"g","o","o","g","l","e","-","a","n","a","l","y","t","i","c","s">>, <<"g","o","o","g","l","e","t","a","g","m","a","n","a","g","e","r">>, <<"g","t","a","g">>,
      <<"h","o","t","j","a","r">>, <<"t","i","k","t","o","k">>, <<"c","l","a","r","i","t","y",".","m","s">>, <<"s","e","g","m","e","n","t",".","c","o","m">>, <<"m","i","x","p","a","n","e","l">>,
      <<"a","m","p","l","i","t","u","d","e">>, <<"i","n","t","e","r","c","o","m">>, <<"c","r","i","s","p",".","c","h","a","t">>, <<"h","u","b","s","p","o","t">> }

\* any(t.search(text) for t in trackers)
TrackerHit(text) == \E t \in Trackers : Contains(Lower(text), t)

\* A tag of the parsed document; an attribute the tag does not carry, and
\* the string of a script without text, are None.
Tag(name, src, string, action, method, onsubmit) ==
    [tag |-> name, src |-> src, string |-> string, action |-> action,
     method |-> method, onsubmit |-> onsubmit]

\* The tags of a page the pre-pass and process_js have to tell apart.
ProbePage ==
    << Tag("script", <<"a",".","j","s">>, None, None, None, None),
       Tag("script", <<"h","t","t","p",":","/","/","h","/","T","i","k","T","o","k",".","j","s">>, None, None, None, None),
       Tag("script", UrlJq, None, None, None, None),
       Tag("script", None, <<"g","t","a","g","(","'","j","s","'",")">>, None, None, None),
       Tag("script", None, <<"x","=","1">>, None, None, None),
       Tag("iframe", <<"h","t","t","p",":","/","/","H","o","t","J","a","r",".","c","o","m","/","f">>, None, None, None, None),
       Tag("iframe", <<"h","t","t","p",":","/","/","h","/","f">>, None, None, None, None),
       Tag("form", None, None, <<"/","b","u","y">>, <<"p","o","s","t">>, None),
       Tag("form", None, None, None, None, <<"g","o","(",")">>) >>

\* The tags remove_trackers decomposes: a script or iframe whose src a
\* pattern matches, and a script without src whose string one matches.
Decomposed(t) ==
    \/ t.tag \in {"script", "iframe"} /\ t.src # None /\ TrackerHit(t.src)
    \/ t.tag = "script" /\ t.src = None /\ ~Falsy(t.string) /\ TrackerHit(t.string)

\* remove_trackers with the word list of process_js in place of its own.
remove_trackers_jslist(soup) ==
    Restrict(soup, {i \in DOMAIN soup :
        ~(/\ soup[i].tag \in {"script", "iframe"} /\ soup[i].src # None
          /\ \E t \in JsTrackers : Contains(Lower(soup[i].src), t))})

\* ClonerPro.remove_trackers: the document without the decomposed tags.
remove_trackers(soup) ==
    Restrict(soup, {i \in DOMAIN soup : ~Decomposed(soup[i])})

OnSubmit == <<"e","v","e","n","t",".","p","r","e","v","e","n","t","D","e","f","a","u","l","t","(",")",";"," ","r","e","t","u","r","n"," ","f","a","l","s","e",";">>

\* neutralize_forms that stops at the first form (find in place of find_all).
neutralize_forms_first(soup) ==
    [i \in DOMAIN soup |->
        IF soup[i].tag = "form" /\ \A j \in DOMAIN soup : soup[j].tag = "form" => i <= j
        THEN [soup[i] EXCEPT !.action = <<"#">>, !.method = <<"G","E","T">>,
                             !.onsubmit = OnSubmit]
        ELSE soup[i]]

\* ClonerPro.neutralize_forms: every form gets the three attributes.
neutralize_forms(soup) ==
    [i \in DOMAIN soup |->
        IF soup[i].tag = "form"
        THEN [soup[i] EXCEPT !.action = <<"#">>, !.method = <<"G","E","T">>,
                             !.onsubmit = OnSubmit]
        ELSE soup[i]]

\* process_page has parsed a document made of some of the tags; probe keeps
\* the parsed tags (arg), the soup as it stands and the tag process_js is at.
SoupInit ==
    /\ pc = "parsed"
    /\ taskState = "PROGRESS" /\ progress = 20 /\ taskResult = ""
    /\ exc = "" /\ milestones = <<>>
    /\ pass = 0 /\ rpc = "loop" /\ doc = <<>>
    /\ res = NoRes /\ cssjob = NoCss
    /\ downloaded = {}
    /\ files = <<>>
    /\ nfetch = <<>> /\ nwrite = <<>> /\ owner = <<>> /\ cssrefs = {}
    /\ quality = NoQuality /\ zip = FALSE
    /\ \E I \in SUBSET DOMAIN ProbePage :
         probe = [fn |-> "process_page", arg |-> Restrict(ProbePage, I),
                  out |-> [soup |-> Restrict(ProbePage, I), at |-> 0]]

\* Steps 1 and 2 of process_page (cloner.py:138-141), which have no await
\* between them; the document has no img and no link, so that the passes
\* before process_js find nothing.
PrePass ==
    /\ pc = "parsed"
    /\ probe' = [probe EXCEPT !.out.soup = neutralize_forms(remove_trackers(@))]
    /\ pc' = "page" /\ pass' = 3
    /\ UNCHANGED <<task, exc, milestones, rpc, doc, res, cssjob, downloaded, files,
                   nfetch, nwrite, owner, cssrefs>>

\* The loop of process_js over soup.find_all('script', src=True) meets its
\* next script, or ends, and process_page returns (cloner.py:365-374).
NextScript ==
    /\ pc = "page" /\ rpc = "loop" /\ probe.fn = "process_page"
    /\ LET soup == probe.out.soup
           rest == {i \in DOMAIN soup : /\ i > probe.out.at
                                        /\ soup[i].tag = "script"
                                        /\ soup[i].src # None}
       IN IF rest = {}
          THEN /\ pc' = "save_index" /\ pass' = 0
               /\ UNCHANGED <<exc, rpc, res, nfetch, probe>>
          ELSE LET i   == CHOOSE k \in rest : \A j \in rest : k <= j
                   ref == Strip(soup[i].src)
                   url == urljoin(PageUrl, ref)
                   filename == sanitize_filename(url, ExtJs)
               IN /\ probe' = [probe EXCEPT !.out.at = i]
                  /\ UNCHANGED pass
                  /\ IF Skipped("js", ref)
                     THEN UNCHANGED <<pc, exc, rpc, res, nfetch>>
                     ELSE IF UrljoinRaises(ref)
                     THEN Raise("urljoin") /\ UNCHANGED <<rpc, res, nfetch>>
                     ELSE /\ Enter(url, DirOf("js") \o filename, "js", "page",
                                   <<>>, DirOf("js") \o filename)
                          /\ UNCHANGED <<pc, exc>>
    /\ UNCHANGED <<task, milestones, doc, cssjob, downloaded, files, nwrite, owner,
                   cssrefs>>

\* download_resource has returned to process_js: script['src'] becomes the
\* local path on success (cloner.py:373-374).
ScriptReturn ==
    /\ pc = "page" /\ rpc = "ret" /\ probe.fn = "process_page"
    /\ probe' = IF res.result
                THEN [probe EXCEPT !.out.soup[probe.out.at].src = res.rel]
                ELSE probe
    /\ rpc' = "loop" /\ res' = NoRes
    /\ UNCHANGED <<pc, task, exc, milestones, pass, doc, cssjob, downloaded, files,
                   nfetch, nwrite, owner, cssrefs>>

SoupNext ==
    \/ PrePass \/ NextScript \/ FetchPrimary \/ FetchFallback \/ Persist
    \/ Optimize \/ ScriptReturn

SoupSpec == SoupInit /\ [][SoupNext]_vars

\* The scripts of the parsed document the pre-pass has removed for their src.
RemovedScripts ==
    {i \in DOMAIN probe.arg \ DOMAIN probe.out.soup :
        probe.arg[i].tag = "script" /\ probe.arg[i].src # None}

\* C28: when the pre-pass has ended, no script or iframe of the document has
\* a src that a deny-list pattern matches and no script without src has a
\* text one matches; and at no time was a fetch issued for the src of a
\* script the pre-pass removed.
C28_TrackersRemovedAndNeverFetched ==
    probe.fn = "process_page" =>
        /\ (pc = "page" /\ probe.out.at = 0) =>
              \A i \in DOMAIN probe.out.soup :
                LET t == probe.out.soup[i]
                IN /\ (t.tag \in {"script", "iframe"} /\ t.src # None) => ~TrackerHit(t.src)
                   /\ (t.tag = "script" /\ t.src = None /\ t.string # None)
                          => ~TrackerHit(t.string)
        /\ \A i \in RemovedScripts :
              LET url == urljoin(PageUrl, Strip(probe.arg[i].src))
              IN url \notin DOMAIN nfetch /\ url \notin downloaded

\* C28 witness: process_js has ended on a document that had tracking
\* scripts, a tracking iframe and a script it fetched, and the pre-pass
\* removed the tracking ones.
C28_Witness ==
    /\ probe.fn = "process_page" /\ pc = "save_index"
    /\ DOMAIN probe.arg = DOMAIN ProbePage
    /\ DOMAIN probe.out.soup = {1, 3, 5, 7, 8, 9}
    /\ nfetch # <<>>

\* C29: once the pre-pass has run, every form of the document has the action
\* '#', the method GET and the handler that prevents the submission, and the
\* forms of the parsed document are all still there; process_js leaves this
\* as it is.
C29_FormsNeutralized ==
    (probe.fn = "process_page" /\ pc # "parsed") =>
        \A i \in DOMAIN probe.arg :
            probe.arg[i].tag = "form" =>
                /\ i \in DOMAIN probe.out.soup
                /\ probe.out.soup[i].tag = "form"
                /\ probe.out.soup[i].action = <<"#">>
                /\ probe.out.soup[i].method = <<"G","E","T">>
                /\ probe.out.soup[i].onsubmit = OnSubmit

\* C29 witness: a document with two forms, one with an action of its own,
\* after process_js has rewritten the src of a script.
C29_Witness ==
    /\ probe.fn = "process_page" /\ pc = "save_index"
    /\ {8, 9} \subseteq DOMAIN probe.out.soup
    /\ probe.arg[8].action # <<"#">>
    /\ probe.out.soup[9].action = <<"#">>
    /\ 1 \in DOMAIN probe.out.soup /\ probe.out.soup[1].src # probe.arg[1].src


\* ------------------------------------------ process_css_urls on one sheet
\* Stylesheets as download_resource leaves them in css/: one reference, the
\* same reference twice, a reference that is part of another one, and one
\* the CDN catalogue has a substitute for.
ProbeSheetTexts ==
    { <<"a","{","b",":","u","r","l","(","a",".","p","n","g",")","}">>,
      <<"a","{","b",":","u","r","l","(","j","Q","u","e","r","y",".","p","n","g",")","}">>,
      <<"a","{","b",":","u","r","l","(","a",".","p","n","g",")",";","c",":","u","r","l","(","a",".","p","n","g",")","}">>,
      <<"a","{","b",":","u","r","l","(","a",".","p","n","g",")",";","c",":","u","r","l","(","b","a",".","p","n","g",")","}">> }

SheetPath == DirOf("css") \o sanitize_filename(UrlJq, ExtCss)

\* process_css has resolved the stylesheet of its link and calls
\* process_css_urls (cloner.py:319-321); probe keeps the text of the file.
SheetInit ==
    /\ pc = "page"
    /\ taskState = "PROGRESS" /\ progress = 20 /\ taskResult = ""
    /\ exc = "" /\ milestones = <<>>
    /\ pass = 2 /\ rpc = "cssopen"
    /\ doc = << Element("css", UrlJq, [srcset |-> FALSE, datasrc |-> FALSE]) >>
    /\ res = NoRes
    /\ cssjob = [NoCss EXCEPT !.path = SheetPath, !.base = UrlJq]
    /\ downloaded = {UrlJq}
    /\ nfetch = UrlJq :> 1 /\ nwrite = UrlJq :> 1
    /\ owner = SheetPath :> {UrlJq} /\ cssrefs = {}
    /\ quality = NoQuality /\ zip = FALSE
    /\ \E text \in ProbeSheetTexts :
         /\ files = SheetPath :> text
         /\ probe = [fn |-> "process_css_urls", arg |-> text, out |-> <<>>]

SheetNext ==
    \/ CssOpen \/ CssNext \/ FetchPrimary \/ FetchFallback \/ Persist \/ Optimize
    \/ ReturnToCss \/ CssEnd

SheetSpec == SheetInit /\ [][SheetNext]_vars

\* C34 (as claimed): when process_css_urls has ended, every url() reference
\* of the file is a reference of the original text that did not resolve, or
\* exactly the relative path of a resource that resolved.
C34_ReferenceReplacedOnce ==
    (probe.fn = "process_css_urls" /\ rpc = "loop") =>
        LET now  == FindUrls(Decode(files[SheetPath]))
            orig == FindUrls(probe.arg)
        IN \A i \in 1..Len(now) :
              \/ \E j \in 1..Len(orig) : now[i] = orig[j]
              \/ \E r \in cssrefs : now[i] = r.rel

====
